---------------------------- MODULE Spec2Model ----------------------------
(***************************************************************************)
(* A model of gd::EventsCodeGenerator (GDCore events code generation).    *)
(*                                                                         *)
(* A gd::String is modelled as a sequence of atoms.  An atom is a piece    *)
(* of text: fixed text emitted by the generator is one atom, and the text  *)
(* of operator tokens (whose length and characters the code inspects) is   *)
(* spelled one character per atom.  String concatenation is \o.            *)
(***************************************************************************)
EXTENDS Integers, Sequences, FiniteSets, TLC

VARIABLES
  errorOccurred,             \* EventsCodeGenerator::errorOccurred
  instructionUniqueIds,      \* EventsCodeGenerator::instructionUniqueIds
  maxCustomConditionsDepth,  \* EventsCodeGenerator::maxCustomConditionsDepth
  maxConditionsListsSize,    \* EventsCodeGenerator::maxConditionsListsSize
  includeFiles,              \* the include files accumulated by AddIncludeFiles
  globalObjectsAndGroups,    \* the project's objects container
  objectsAndGroups,          \* the layout's objects container
  context,                   \* the EventsCodeGenerationContext of the call
  call,                      \* the last operation called, with its inputs
  output,                    \* what the last operation returned
  history                    \* the calls made so far on this generator

vars == <<errorOccurred, instructionUniqueIds, maxCustomConditionsDepth,
          maxConditionsListsSize, includeFiles, globalObjectsAndGroups,
          objectsAndGroups, context, call, output, history>>

(***************************************************************************)
(* Bounds of the model.                                                    *)
(***************************************************************************)
MaxAddress == 3
MaxIdCalls == 4
MaxGroupSize == 2
MaxTokenLen == 2
MaxObjectsInGroup == 3
MaxExtraParameters == 1
MaxListLen == 3
MaxEvents == 2
MaxPlainLen == 3
MaxBuilderParameters == 3
MaxStartFromArgument == 2
MaxSubInstructions == 2
MaxDepthBefore == 2
MaxNeeds == 2
MaxDeclarationCalls == 2
MaxPreprocessEvents == 3

(***************************************************************************)
(* Sequence helpers.                                                       *)
(***************************************************************************)
Range(s) == {s[i] : i \in 1..Len(s)}

SeqsUpTo(S, n) == UNION {[1..k -> S] : k \in 0..n}

NoDuplicates(s) == \A i, j \in 1..Len(s) : i # j => s[i] # s[j]

RECURSIVE Flatten(_)
Flatten(ss) == IF ss = <<>> THEN <<>> ELSE Head(ss) \o Flatten(Tail(ss))

(***************************************************************************)
(* Strings, objects containers and the generation context.                 *)
(***************************************************************************)
EmptyString == <<>>

\* The names used for objects and for groups.  Z is never an object.
ObjectNames == {<<"A">>, <<"B">>, <<"C">>}
StaleName == <<"Z">>
GroupNames == {<<"G">>}

\* gd::ObjectsContainer: objects maps each object's name to its type, groups
\* maps each group's name to the ordered names of its members.
EmptyContainer == [objects |-> <<>>, groups |-> <<>>]

HasObjectNamed(container, name) == name \in DOMAIN container.objects

\* gd::ObjectGroupsContainer::Has
HasGroup(container, name) == name \in DOMAIN container.groups

\* gd::ObjectGroup::GetAllObjectsNames
GetAllObjectsNames(container, name) == container.groups[name]

\* gd::EventsCodeGenerationContext, as constructed: no parent, no current
\* object, nothing needed nor declared.
RootContext ==
  [currentObject |-> EmptyString,
   objectsListsToBeDeclared |-> {},
   objectsListsWithoutPickingToBeDeclared |-> {},
   emptyObjectsListsToBeDeclared |-> {},
   alreadyDeclaredObjectsLists |-> {},
   depthOfLastUse |-> <<>>,
   contextDepth |-> 0,
   customConditionDepth |-> 0,
   hasParent |-> FALSE,
   parentDepthOfLastUse |-> <<>>,
   reuseExplicitlyForbidden |-> FALSE]

GetCurrentObject(ctx) == ctx.currentObject

SetCurrentObject(ctx, name) == [ctx EXCEPT !.currentObject = name]

SetNoCurrentObject(ctx) == [ctx EXCEPT !.currentObject = EmptyString]

(***************************************************************************)
(* Object/group resolver.                                                  *)
(***************************************************************************)
\* The members of the group, or the name itself: the project's groups are
\* looked up before the layout's.
GroupOrObject(objectName) ==
  IF HasGroup(globalObjectsAndGroups, objectName)
  THEN GetAllObjectsNames(globalObjectsAndGroups, objectName)
  ELSE IF HasGroup(objectsAndGroups, objectName)
  THEN GetAllObjectsNames(objectsAndGroups, objectName)
  ELSE <<objectName>>

\* "If current object is present, use it and only it."
OnlyCurrentObject(realObjects, ctx) ==
  IF GetCurrentObject(ctx) \in Range(realObjects)
  THEN <<GetCurrentObject(ctx)>>
  ELSE realObjects

\* A check that every name passes.
ObjectExists_Always(name) ==
  TRUE

\* "Ensure that all returned objects actually exists."
ObjectExists(name) ==
  HasObjectNamed(objectsAndGroups, name)
    \/ HasObjectNamed(globalObjectsAndGroups, name)

\* An expansion that does not narrow to the current object.
ExpandObjectsName_NoCurrent(objectName, ctx) ==
  SelectSeq(GroupOrObject(objectName), ObjectExists)

ExpandObjectsName(objectName, ctx) ==
  SelectSeq(OnlyCurrentObject(GroupOrObject(objectName), ctx), ObjectExists)

(***************************************************************************)
(* Parameter compiler.                                                     *)
(***************************************************************************)
\* gd::String::FindAndReplace for a one-character search string.
RECURSIVE FindAndReplace(_, _, _)
FindAndReplace(str, search, replacement) ==
  IF str = <<>> THEN <<>>
  ELSE (IF Head(str) = search THEN replacement ELSE <<Head(str)>>)
         \o FindAndReplace(Tail(str), search, replacement)

\* An escaping that replaces the double quotes first and the backslashes last.
ConvertToString_QuotesFirst(plainString) ==
  FindAndReplace(
    FindAndReplace(
      FindAndReplace(
        FindAndReplace(plainString, "\"", <<"\\", "\"">>),
        "\r", <<"\\", "r">>),
      "\n", <<"\\", "n">>),
    "\\", <<"\\", "\\">>)

ConvertToString(plainString) ==
  FindAndReplace(
    FindAndReplace(
      FindAndReplace(
        FindAndReplace(plainString, "\\", <<"\\", "\\">>),
        "\r", <<"\\", "r">>),
      "\n", <<"\\", "n">>),
    "\"", <<"\\", "\"">>)

ConvertToStringExplicit(plainString) ==
  <<"\"">> \o ConvertToString(plainString) \o <<"\"">>

GenerateGetBehaviorNameCode(behaviorName) == ConvertToStringExplicit(behaviorName)

\* gd::ParameterMetadata::IsObject, IsBehavior, IsExpression
IsObject(type) ==
  type \in {"object", "objectPtr", "objectList", "objectListWithoutPicking"}

IsBehavior(type) == type = "behavior"

IsExpression(kind, type) ==
  CASE kind = "number" -> type \in {"number", "expression"}
    [] kind = "string" -> type = "string"
    [] kind = "variable" -> type \in {"objectvar", "globalvar", "scenevar"}
    [] OTHER -> FALSE

\* gd::ExpressionCodeGenerator::GenerateExpressionCode: the code of the
\* expression, for the given kind (and object, for object variables).
GenerateExpressionCode(kind, parameter, lastObjectName) ==
  <<kind, "(">> \o parameter
    \o (IF lastObjectName = EmptyString THEN <<>> ELSE <<" of ">> \o lastObjectName)
    \o <<")">>

\* EventsCodeGenerator::GenerateObject
GenerateObject(objectName, type, ctx) == <<"objectsList(">> \o objectName \o <<")">>

GenerateTrue == <<"true">>
GenerateFalse == <<"false">>

RelationalOperators ==
  {<<"=", "=">>, <<"<">>, <<">">>, <<"<", "=">>, <<">", "=">>, <<"!", "=">>}

Operators == {<<"=">>, <<"+">>, <<"-">>, <<"/">>, <<"*">>}

\* A relationalOperator branch that keeps a bad token instead of the default.
RelationalOperatorCode_NoDefault(parameter) ==
  <<"\"">> \o (IF parameter = <<"=">> THEN <<"=", "=">> ELSE parameter) \o <<"\"">>

\* The relationalOperator branch.
RelationalOperatorCode(parameter) ==
  LET argOutput == IF parameter = <<"=">> THEN <<"=", "=">> ELSE parameter
  IN  <<"\"">>
        \o (IF argOutput \notin RelationalOperators THEN <<"=", "=">> ELSE argOutput)
        \o <<"\"">>

\* An operator branch that strips the quotes around the raw token first.
OperatorCode_QuotesStripped(parameter) ==
  LET argOutput == IF Len(parameter) > 2 /\ Head(parameter) = "\""
                        /\ parameter[Len(parameter)] = "\""
                   THEN SubSeq(parameter, 2, Len(parameter) - 1) ELSE parameter
  IN  <<"\"">> \o (IF argOutput \notin Operators THEN <<"=">> ELSE argOutput)
        \o <<"\"">>

\* The operator branch.
OperatorCode(parameter) ==
  <<"\"">> \o (IF parameter \notin Operators THEN <<"=">> ELSE parameter) \o <<"\"">>

ResourceTypes ==
  {"audioResource", "bitmapFontResource", "fontResource", "imageResource",
   "jsonResource", "videoResource", "password", "musicfile", "soundfile",
   "police"}

\* "Try supplementary types if provided": the replacement texts of every entry
\* of the table whose name is the parameter's type, concatenated.
RECURSIVE SupplementaryCode(_, _)
SupplementaryCode(supplementaryParametersTypes, type) ==
  IF supplementaryParametersTypes = <<>> THEN <<>>
  ELSE (IF Head(supplementaryParametersTypes)[1] = type
        THEN Head(supplementaryParametersTypes)[2] ELSE <<>>)
         \o SupplementaryCode(Tail(supplementaryParametersTypes), type)

\* supplementaryParametersTypes is <<>> for the null pointer.
GenerateParameterCodes(parameter, metadata, ctx, lastObjectName, supplementaryParametersTypes) ==
  CASE IsExpression("number", metadata.type) ->
         GenerateExpressionCode("number", parameter, EmptyString)
    [] IsExpression("string", metadata.type) ->
         GenerateExpressionCode("string", parameter, EmptyString)
    [] IsExpression("variable", metadata.type) ->
         GenerateExpressionCode(metadata.type, parameter, lastObjectName)
    [] IsObject(metadata.type) -> GenerateObject(parameter, metadata.type, ctx)
    [] metadata.type = "relationalOperator" -> RelationalOperatorCode(parameter)
    [] metadata.type = "operator" -> OperatorCode(parameter)
    [] IsBehavior(metadata.type) -> GenerateGetBehaviorNameCode(parameter)
    [] metadata.type = "key" -> <<"\"">> \o ConvertToString(parameter) \o <<"\"">>
    [] metadata.type \in ResourceTypes ->
         <<"\"">> \o ConvertToString(parameter) \o <<"\"">>
    [] metadata.type = "mouse" -> <<"\"">> \o ConvertToString(parameter) \o <<"\"">>
    [] metadata.type = "yesorno" ->
         IF parameter = <<"yes">> \/ parameter = <<"oui">>
         THEN GenerateTrue ELSE GenerateFalse
    [] metadata.type = "trueorfalse" ->
         IF parameter = <<"True">> \/ parameter = <<"Vrai">>
         THEN GenerateTrue ELSE GenerateFalse
    [] metadata.type = "inlineCode" -> metadata.supplementaryInformation
    [] OTHER ->
         LET argOutput == SupplementaryCode(supplementaryParametersTypes,
                                            metadata.type)
         IN  IF argOutput = <<>>
             THEN <<"\"">> \o ConvertToString(parameter) \o <<"\"">>
             ELSE argOutput

(***************************************************************************)
(* Operator, mutator and relational call builders.  Indexes count from 0   *)
(* as in the code; a builder returns its code and whether it reported an   *)
(* error (ReportError).                                                    *)
(***************************************************************************)
Max(S) == CHOOSE x \in S : \A y \in S : y <= x
Min(S) == CHOOSE x \in S : \A y \in S : x <= y

\* A scan that starts from the first metadata parameter.
IndexOfType_FromFirst(instrInfos, type, startFromArgument) ==
  LET found == {i \in 0..(Len(instrInfos.parameters) - 1) :
                  instrInfos.parameters[i + 1].type = type}
  IN  IF found = {} THEN Len(instrInfos.parameters) ELSE Max(found)

\* The index of the last metadata parameter of the given type at or after
\* startFromArgument, or parameters.size() when there is none.
IndexOfType(instrInfos, type, startFromArgument) ==
  LET found == {i \in startFromArgument..(Len(instrInfos.parameters) - 1) :
                  instrInfos.parameters[i + 1].type = type}
  IN  IF found = {} THEN Len(instrInfos.parameters) ELSE Max(found)

\* "Operator contains quote which must be removed."
RemoveQuotes(str) ==
  IF Len(str) > 2 THEN SubSeq(str, 2, Len(str) - 1) ELSE str

\* The arguments from index i on, but those at the skipped indexes, appended
\* to argumentsStr with ", " between them.
RECURSIVE JoinArguments(_, _, _, _)
JoinArguments(arguments, i, skipped, argumentsStr) ==
  IF i >= Len(arguments) THEN argumentsStr
  ELSE IF i \in skipped THEN JoinArguments(arguments, i + 1, skipped, argumentsStr)
  ELSE JoinArguments(arguments, i + 1, skipped,
         (IF argumentsStr # <<>> THEN argumentsStr \o <<", ">> ELSE argumentsStr)
           \o arguments[i + 1])

GenerateArgumentsList(arguments, startFrom) ==
  JoinArguments(arguments, startFrom, {}, <<>>)

BuilderError == [code |-> EmptyString, error |-> TRUE]

GenerateRelationalOperatorCall(instrInfos, arguments, callStartString, startFromArgument) ==
  LET relationalOperatorIndex ==
        IndexOfType(instrInfos, "relationalOperator", startFromArgument)
  IN  IF relationalOperatorIndex + 1 >= Len(instrInfos.parameters)
      THEN BuilderError
      ELSE LET relationalOperator ==
                 RemoveQuotes(arguments[relationalOperatorIndex + 1])
               rhs == arguments[relationalOperatorIndex + 2]
               argumentsStr ==
                 JoinArguments(arguments, startFromArgument,
                               {relationalOperatorIndex,
                                relationalOperatorIndex + 1}, <<>>)
           IN  [code |-> callStartString \o <<"(">> \o argumentsStr \o <<") ">>
                           \o relationalOperator \o <<" ">> \o rhs,
                error |-> FALSE]

\* The setter's arguments: the value's slot holds rhs, or the getter call.
RECURSIVE SetterArguments(_, _, _, _, _)
SetterArguments(arguments, i, operatorIndex, slot, argumentsStr) ==
  IF i >= Len(arguments) THEN argumentsStr
  ELSE LET sep == IF argumentsStr # <<>> THEN argumentsStr \o <<", ">>
                  ELSE argumentsStr
       IN  IF i # operatorIndex /\ i # operatorIndex + 1
           THEN SetterArguments(arguments, i + 1, operatorIndex, slot,
                                sep \o arguments[i + 1])
           ELSE IF i = operatorIndex + 1
           THEN SetterArguments(arguments, i + 1, operatorIndex, slot, sep \o slot)
           ELSE SetterArguments(arguments, i + 1, operatorIndex, slot, argumentsStr)

\* An operator call that goes through the getter for the operator '=' too.
GenerateOperatorCall_AlwaysGetter(instrInfos, arguments, callStartString, getterStartString, startFromArgument) ==
  LET operatorIndex == IndexOfType(instrInfos, "operator", startFromArgument)
  IN  IF operatorIndex + 1 >= Len(instrInfos.parameters)
      THEN BuilderError
      ELSE [code |-> callStartString \o <<"(">>
                       \o SetterArguments(arguments, startFromArgument,
                             operatorIndex,
                             getterStartString \o <<"(">>
                               \o JoinArguments(arguments, startFromArgument,
                                     {operatorIndex, operatorIndex + 1}, <<>>)
                               \o <<") ">>
                               \o RemoveQuotes(arguments[operatorIndex + 1])
                               \o <<" (">> \o arguments[operatorIndex + 2]
                               \o <<")">>,
                             <<>>)
                       \o <<")">>,
            error |-> FALSE]

GenerateOperatorCall(instrInfos, arguments, callStartString, getterStartString, startFromArgument) ==
  LET operatorIndex == IndexOfType(instrInfos, "operator", startFromArgument)
  IN  IF operatorIndex + 1 >= Len(instrInfos.parameters)
      THEN BuilderError
      ELSE LET operatorStr == RemoveQuotes(arguments[operatorIndex + 1])
               rhs == arguments[operatorIndex + 2]
               getterArgumentsStr ==
                 JoinArguments(arguments, startFromArgument,
                               {operatorIndex, operatorIndex + 1}, <<>>)
               slot == IF operatorStr # <<"=">>
                       THEN getterStartString \o <<"(">> \o getterArgumentsStr
                              \o <<") ">> \o operatorStr \o <<" (">> \o rhs
                              \o <<")">>
                       ELSE rhs
               argumentsStr ==
                 SetterArguments(arguments, startFromArgument, operatorIndex,
                                 slot, <<>>)
           IN  [code |-> callStartString \o <<"(">> \o argumentsStr \o <<")">>,
                error |-> FALSE]

\* An operator string left as the token.
CompoundOperator_Unchanged(operatorStr) ==
  operatorStr

\* "Generate real operator string."
CompoundOperator(operatorStr) ==
  IF operatorStr \in {<<"+">>, <<"-">>, <<"/">>, <<"*">>}
  THEN operatorStr \o <<"=">> ELSE operatorStr

GenerateCompoundOperatorCall(instrInfos, arguments, callStartString, startFromArgument) ==
  LET operatorIndex == IndexOfType(instrInfos, "operator", startFromArgument)
  IN  IF operatorIndex + 1 >= Len(instrInfos.parameters)
      THEN BuilderError
      ELSE LET operatorStr ==
                 CompoundOperator(RemoveQuotes(arguments[operatorIndex + 1]))
               rhs == arguments[operatorIndex + 2]
               argumentsStr ==
                 JoinArguments(arguments, startFromArgument,
                               {operatorIndex, operatorIndex + 1}, <<>>)
           IN  [code |-> callStartString \o <<"(">> \o argumentsStr \o <<") ">>
                           \o operatorStr \o <<" (">> \o rhs \o <<")">>,
                error |-> FALSE]

GenerateMutatorCall(instrInfos, arguments, callStartString, startFromArgument) ==
  LET operatorIndex == IndexOfType(instrInfos, "operator", startFromArgument)
      mutators == instrInfos.codeExtraInformation.optionalMutators
  IN  IF operatorIndex + 1 >= Len(instrInfos.parameters)
      THEN BuilderError
      ELSE LET operatorStr == RemoveQuotes(arguments[operatorIndex + 1])
               rhs == arguments[operatorIndex + 2]
               argumentsStr ==
                 JoinArguments(arguments, startFromArgument,
                               {operatorIndex, operatorIndex + 1}, <<>>)
           IN  IF operatorStr \notin DOMAIN mutators
               THEN BuilderError
               ELSE [code |-> callStartString \o <<"(">> \o argumentsStr
                                \o <<").">> \o mutators[operatorStr] \o <<"(">>
                                \o rhs \o <<")">>,
                     error |-> FALSE]

(***************************************************************************)
(* Code of one condition or action, by kind of instruction.                *)
(***************************************************************************)
\* EventsCodeGenerator::GenerateNegatedPredicat
GenerateNegatedPredicat(predicat) == <<"!(">> \o predicat \o <<")">>

\* EventsCodeGenerator::GetObjectListName (ManObjListName)
GetObjectListName(name, ctx) == <<"GD">> \o name \o <<"ObjectsList">>

HasValueType(instrInfos) ==
  instrInfos.codeExtraInformation.type \in {"number", "string"}

DeclaresConditionInverted(instrInfos) ==
  \E i \in 1..Len(instrInfos.parameters) :
    instrInfos.parameters[i].type = "conditionInverted"

\* A free condition negated whenever it is inverted.
FreeConditionIsNegated_IgnoringMetadata(instrInfos, conditionInverted) ==
  conditionInverted

\* "Add logical not if needed": is the predicate of a free condition negated?
FreeConditionIsNegated(instrInfos, conditionInverted) ==
  LET conditionAlreadyTakeCareOfInversion == DeclaresConditionInverted(instrInfos)
  IN  ~conditionAlreadyTakeCareOfInversion /\ conditionInverted

\* Is the predicate of an object or behavior condition negated?
ObjectConditionIsNegated(instrInfos, conditionInverted) == conditionInverted

GenerateFreeCondition(arguments, instrInfos, returnBoolean, conditionInverted, ctx) ==
  LET built ==
        IF HasValueType(instrInfos)
        THEN GenerateRelationalOperatorCall(
               instrInfos, arguments,
               instrInfos.codeExtraInformation.functionCallName, 0)
        ELSE [code |-> instrInfos.codeExtraInformation.functionCallName
                         \o <<"(">> \o GenerateArgumentsList(arguments, 0)
                         \o <<")">>,
              error |-> FALSE]
      predicat == IF FreeConditionIsNegated(instrInfos, conditionInverted)
                  THEN GenerateNegatedPredicat(built.code) ELSE built.code
  IN  [code |-> returnBoolean \o <<" = ">> \o predicat \o <<";\n">>,
       error |-> built.error]

GenerateObjectCondition(objectName, objInfo, arguments, instrInfos, returnBoolean, conditionInverted, ctx) ==
  LET objectFunctionCallNamePart ==
        IF instrInfos.parameters[1].supplementaryInformation # EmptyString
        THEN <<"static_cast<">> \o objInfo.className \o <<"*>(">>
               \o GetObjectListName(objectName, ctx) \o <<"[i])->">>
               \o instrInfos.codeExtraInformation.functionCallName
        ELSE GetObjectListName(objectName, ctx) \o <<"[i]->">>
               \o instrInfos.codeExtraInformation.functionCallName
      built ==
        IF HasValueType(instrInfos)
        THEN GenerateRelationalOperatorCall(instrInfos, arguments,
                                            objectFunctionCallNamePart, 1)
        ELSE [code |-> objectFunctionCallNamePart \o <<"(">>
                         \o GenerateArgumentsList(arguments, 1) \o <<")">>,
              error |-> FALSE]
      predicat == IF ObjectConditionIsNegated(instrInfos, conditionInverted)
                  THEN GenerateNegatedPredicat(built.code)
                  ELSE built.code
  IN  [code |-> <<"For each picked object \"">> \o objectName
                  \o <<"\", check ">> \o predicat \o <<".\n">>,
       error |-> built.error]

GenerateBehaviorCondition(objectName, behaviorName, autoInfo, arguments, instrInfos, returnBoolean, conditionInverted, ctx) ==
  LET built ==
        IF HasValueType(instrInfos)
        THEN GenerateRelationalOperatorCall(instrInfos, arguments, EmptyString, 2)
        ELSE [code |-> <<"(">> \o GenerateArgumentsList(arguments, 2) \o <<")">>,
              error |-> FALSE]
      predicat == IF ObjectConditionIsNegated(instrInfos, conditionInverted)
                  THEN GenerateNegatedPredicat(built.code)
                  ELSE built.code
  IN  [code |-> <<"For each picked object \"">> \o objectName
                  \o <<"\", check ">> \o predicat \o <<" for behavior \"">>
                  \o behaviorName \o <<"\".\n">>,
       error |-> built.error]

GenerateFreeAction(arguments, instrInfos, ctx) ==
  LET info == instrInfos.codeExtraInformation
      built ==
        IF HasValueType(instrInfos)
        THEN IF info.accessType = "MutatorAndOrAccessor"
             THEN GenerateOperatorCall(instrInfos, arguments,
                                       info.functionCallName,
                                       info.optionalAssociatedInstruction, 0)
             ELSE IF info.accessType = "Mutators"
             THEN GenerateMutatorCall(instrInfos, arguments,
                                      info.functionCallName, 0)
             ELSE GenerateCompoundOperatorCall(instrInfos, arguments,
                                               info.functionCallName, 0)
        ELSE [code |-> info.functionCallName \o <<"(">>
                         \o GenerateArgumentsList(arguments, 0) \o <<")">>,
              error |-> FALSE]
  IN  [code |-> built.code \o <<";\n">>, error |-> built.error]

GenerateObjectAction(objectName, objInfo, arguments, instrInfos, ctx) ==
  LET info == instrInfos.codeExtraInformation
  IN  IF HasValueType(instrInfos)
      THEN LET built ==
                 IF info.accessType = "MutatorAndOrAccessor"
                 THEN GenerateOperatorCall(instrInfos, arguments,
                                           info.functionCallName,
                                           info.optionalAssociatedInstruction, 2)
                 ELSE GenerateCompoundOperatorCall(instrInfos, arguments,
                                                   info.functionCallName, 2)
           IN  [code |-> <<"For each picked object \"">> \o objectName
                           \o <<"\", call ">> \o built.code \o <<".\n">>,
                error |-> built.error]
      ELSE LET argumentsStr == GenerateArgumentsList(arguments, 1)
               built == info.functionCallName \o <<"(">> \o argumentsStr \o <<")">>
           IN  [code |-> <<"For each picked object \"">> \o objectName
                           \o <<"\", call ">> \o built \o <<"(">> \o argumentsStr
                           \o <<").\n">>,
                error |-> FALSE]

GenerateBehaviorAction(objectName, behaviorName, autoInfo, arguments, instrInfos, ctx) ==
  LET info == instrInfos.codeExtraInformation
  IN  IF HasValueType(instrInfos)
      THEN LET built ==
                 IF info.accessType = "MutatorAndOrAccessor"
                 THEN GenerateOperatorCall(instrInfos, arguments,
                                           info.functionCallName,
                                           info.optionalAssociatedInstruction, 2)
                 ELSE GenerateCompoundOperatorCall(instrInfos, arguments,
                                                   info.functionCallName, 2)
           IN  [code |-> <<"For each picked object \"">> \o objectName
                           \o <<"\", call ">> \o built.code
                           \o <<" for behavior \"">> \o behaviorName
                           \o <<"\".\n">>,
                error |-> built.error]
      ELSE LET argumentsStr == GenerateArgumentsList(arguments, 2)
               built == info.functionCallName \o <<"(">> \o argumentsStr \o <<")">>
           IN  [code |-> <<"For each picked object \"">> \o objectName
                           \o <<"\", call ">> \o built \o <<"(">> \o argumentsStr
                           \o <<")">> \o <<" for behavior \"">> \o behaviorName
                           \o <<"\".\n">>,
                error |-> FALSE]

(***************************************************************************)
(* Metadata: what MetadataProvider returns for the instruction and object  *)
(* types of the platform.                                                  *)
(***************************************************************************)
Param(type) == [type |-> type, supplementaryInformation |-> EmptyString]

TypedParam(type, info) == [type |-> type, supplementaryInformation |-> info]

ExtraInformation(functionCallName, type, accessType, customCodeGenerator) ==
  [functionCallName |-> <<functionCallName>>,
   type |-> type,
   accessType |-> accessType,
   optionalAssociatedInstruction |-> <<"get", functionCallName>>,
   optionalMutators |-> (<<"+">> :> <<"add">>) @@ (<<"=">> :> <<"set">>),
   customCodeGenerator |-> customCodeGenerator,
   includeFiles |-> {<<functionCallName>>}]

Metadata(kind, parameters, extra, capability) ==
  [bad |-> FALSE, kind |-> kind, parameters |-> parameters,
   codeExtraInformation |-> extra, requiredBaseObjectCapability |-> capability]

\* The sentinel returned for a type the platform does not know.
BadInstructionMetadata ==
  [bad |-> TRUE, kind |-> "free", parameters |-> <<>>,
   codeExtraInformation |-> ExtraInformation("", "", "Reference", "none"),
   requiredBaseObjectCapability |-> ""]

IsBadInstructionMetadata(instrInfos) == instrInfos.bad
IsObjectInstruction(instrInfos) == instrInfos.kind = "object"
IsBehaviorInstruction(instrInfos) == instrInfos.kind = "behavior"
HasCustomCodeGenerator(instrInfos) ==
  instrInfos.codeExtraInformation.customCodeGenerator # "none"

ConditionTypes ==
  {"Free", "FreeInverted", "FreeNumber", "Object", "ObjectInverted",
   "ObjectCapability", "ObjectTyped", "ObjectNumber", "Behavior",
   "BehaviorInverted", "Custom"}

\* MetadataProvider::GetConditionMetadata
GetConditionMetadata(type) ==
  CASE type = "Free" ->
         Metadata("free", <<Param("expression")>>,
                  ExtraInformation("isFree", "", "Reference", "none"), "")
    [] type = "FreeInverted" ->
         Metadata("free", <<Param("expression"), Param("conditionInverted")>>,
                  ExtraInformation("isFreeInverted", "", "Reference", "none"), "")
    [] type = "FreeNumber" ->
         Metadata("free", <<Param("relationalOperator"), Param("expression")>>,
                  ExtraInformation("freeNumber", "number", "Reference", "none"), "")
    [] type = "Object" ->
         Metadata("object", <<Param("object"), Param("expression")>>,
                  ExtraInformation("isObject", "", "Reference", "none"), "")
    [] type = "ObjectInverted" ->
         Metadata("object", <<Param("object"), Param("conditionInverted")>>,
                  ExtraInformation("isObjectInverted", "", "Reference", "none"), "")
    [] type = "ObjectCapability" ->
         Metadata("object", <<Param("object")>>,
                  ExtraInformation("hasEffect", "", "Reference", "none"),
                  "effect")
    [] type = "ObjectTyped" ->
         Metadata("object", <<TypedParam("object", <<"Sprite">>)>>,
                  ExtraInformation("isSprite", "", "Reference", "none"), "")
    [] type = "ObjectNumber" ->
         Metadata("object",
                  <<Param("object"), Param("relationalOperator"),
                    Param("expression")>>,
                  ExtraInformation("objectNumber", "number", "Reference", "none"),
                  "")
    [] type = "Behavior" ->
         Metadata("behavior",
                  <<Param("object"), Param("behavior"), Param("expression")>>,
                  ExtraInformation("isBehavior", "", "Reference", "none"), "")
    [] type = "BehaviorInverted" ->
         Metadata("behavior",
                  <<Param("object"), Param("behavior"),
                    Param("conditionInverted")>>,
                  ExtraInformation("isBehaviorInverted", "", "Reference", "none"),
                  "")
    [] type = "Custom" ->
         Metadata("free", <<Param("object"), Param("expression")>>,
                  ExtraInformation("custom", "", "Reference", "echo"), "")
    [] type = "CustomNested" ->
         Metadata("free", <<>>,
                  ExtraInformation("customNested", "", "Reference", "nest"), "")
    [] OTHER -> BadInstructionMetadata

ActionTypes ==
  {"Do", "SetNumber", "SetAccessor", "SetMutators", "ObjectDo",
   "ObjectCapabilityDo", "ObjectTypedDo", "ObjectSetNumber", "BehaviorDo",
   "BehaviorSetNumber", "CustomDo"}

\* MetadataProvider::GetActionMetadata
GetActionMetadata(type) ==
  CASE type = "Do" ->
         Metadata("free", <<Param("expression")>>,
                  ExtraInformation("do", "", "Reference", "none"), "")
    [] type = "SetNumber" ->
         Metadata("free", <<Param("operator"), Param("expression")>>,
                  ExtraInformation("setNumber", "number", "Reference", "none"), "")
    [] type = "SetAccessor" ->
         Metadata("free", <<Param("operator"), Param("expression")>>,
                  ExtraInformation("setAccessor", "number",
                                   "MutatorAndOrAccessor", "none"), "")
    [] type = "SetMutators" ->
         Metadata("free", <<Param("operator"), Param("expression")>>,
                  ExtraInformation("setMutators", "number", "Mutators", "none"),
                  "")
    [] type = "ObjectDo" ->
         Metadata("object", <<Param("object"), Param("expression")>>,
                  ExtraInformation("objectDo", "", "Reference", "none"), "")
    [] type = "ObjectCapabilityDo" ->
         Metadata("object", <<Param("object")>>,
                  ExtraInformation("setEffect", "", "Reference", "none"),
                  "effect")
    [] type = "ObjectTypedDo" ->
         Metadata("object", <<TypedParam("object", <<"Sprite">>)>>,
                  ExtraInformation("spriteDo", "", "Reference", "none"), "")
    [] type = "ObjectSetNumber" ->
         Metadata("object",
                  <<Param("object"), Param("operator"), Param("expression")>>,
                  ExtraInformation("objectSetNumber", "number", "Reference",
                                   "none"), "")
    [] type = "BehaviorDo" ->
         Metadata("behavior",
                  <<Param("object"), Param("behavior"), Param("expression")>>,
                  ExtraInformation("behaviorDo", "", "Reference", "none"), "")
    [] type = "BehaviorSetNumber" ->
         Metadata("behavior",
                  <<Param("object"), Param("behavior"), Param("operator"),
                    Param("expression")>>,
                  ExtraInformation("behaviorSetNumber", "number", "Reference",
                                   "none"), "")
    [] type = "CustomDo" ->
         Metadata("free", <<Param("object"), Param("expression")>>,
                  ExtraInformation("customDo", "", "Reference", "echo"), "")
    [] OTHER -> BadInstructionMetadata

\* MetadataProvider::GetObjectMetadata: the Text type lacks the "effect"
\* capability.
GetObjectMetadata(objectType) ==
  [className |-> <<"Runtime">> \o objectType,
   includeFiles |-> {objectType},
   unsupportedBaseObjectCapabilities |->
     IF objectType = <<"Text">> THEN {"effect"} ELSE {}]

IsUnsupportedBaseObjectCapability(objInfo, capability) ==
  capability \in objInfo.unsupportedBaseObjectCapabilities

\* MetadataProvider::GetBehaviorMetadata
GetBehaviorMetadata(behaviorType) == [includeFiles |-> {behaviorType}]

\* gd::GetTypeOfObject: the type of the object, looked up in the layout then
\* in the project; for a group, the type its members share, if any.
GetTypeOfObject(project, layout, name) ==
  IF HasObjectNamed(layout, name) THEN layout.objects[name]
  ELSE IF HasObjectNamed(project, name) THEN project.objects[name]
  ELSE LET members ==
             IF HasGroup(layout, name) THEN layout.groups[name]
             ELSE IF HasGroup(project, name) THEN project.groups[name]
             ELSE <<>>
           types == {IF HasObjectNamed(layout, m) THEN layout.objects[m]
                     ELSE IF HasObjectNamed(project, m) THEN project.objects[m]
                     ELSE EmptyString : m \in Range(members)}
       IN  IF Cardinality(types) = 1 THEN CHOOSE t \in types : TRUE
           ELSE EmptyString

\* gd::GetTypeOfBehavior
GetTypeOfBehavior(project, layout, behaviorName) ==
  IF behaviorName = EmptyString THEN EmptyString
  ELSE behaviorName \o <<"Type">>

(***************************************************************************)
(* Instruction compiler.  The generator's mutable state is threaded as a   *)
(* record st: errorOccurred, includeFiles, the two maxima and the context. *)
(* An instruction is a record: type, parameters, inverted,                 *)
(* subInstructions.                                                        *)
(***************************************************************************)
\* gd::EventsCodeGenerationContext::ObjectsListNeeded
IsToBeDeclared(ctx, name) ==
  name \in ctx.objectsListsToBeDeclared
             \cup ctx.objectsListsWithoutPickingToBeDeclared
             \cup ctx.emptyObjectsListsToBeDeclared

ObjectsListNeeded(ctx, name) ==
  [ctx EXCEPT
     !.objectsListsToBeDeclared =
        IF IsToBeDeclared(ctx, name) THEN @ ELSE @ \cup {name},
     !.depthOfLastUse =
        [n \in DOMAIN @ \cup {name} |->
           IF n = name THEN ctx.contextDepth ELSE @[n]]]

EnterCustomCondition(ctx) ==
  [ctx EXCEPT !.customConditionDepth = @ + 1]

LeaveCustomCondition(ctx) ==
  [ctx EXCEPT !.customConditionDepth = @ - 1]

GetCurrentConditionDepth(ctx) == ctx.customConditionDepth

\* gd::Instruction::GetParameter: the parameter, empty past the end.
GetParameter(instruction, index) ==
  IF index < Len(instruction.parameters)
  THEN instruction.parameters[index + 1] ELSE EmptyString

\* A compiler that never completes the parameters.
PadParameters_Never(parameters, size) == parameters

\* "Be sure there is no lack of parameter": empty parameters are pushed
\* until there are `size` of them.
PadParameters(parameters, size) ==
  IF Len(parameters) < size
  THEN parameters \o [i \in 1..(size - Len(parameters)) |-> EmptyString]
  ELSE parameters

\* A verification that does not compare the object's type with the one the
\* parameter requires.
ObjectParameterProblem_NoTypeCheck(instruction, instrInfos, pNb) ==
  LET objectInParameter == GetParameter(instruction, pNb)
  IN  IF /\ IsObject(instrInfos.parameters[pNb + 1].type)
         /\ ~HasObjectNamed(objectsAndGroups, objectInParameter)
         /\ ~HasObjectNamed(globalObjectsAndGroups, objectInParameter)
         /\ ~HasGroup(objectsAndGroups, objectInParameter)
         /\ ~HasGroup(globalObjectsAndGroups, objectInParameter)
      THEN <<"/* Unknown object - skipped. */">>
      ELSE EmptyString

\* "Verify that there are no mismatchs between object type in parameters":
\* the placeholder of the first parameter that fails, or <<>>.
ObjectParameterProblem(instruction, instrInfos, pNb) ==
  LET objectInParameter == GetParameter(instruction, pNb)
      info == instrInfos.parameters[pNb + 1]
  IN  IF ~IsObject(info.type) THEN EmptyString
      ELSE IF /\ ~HasObjectNamed(objectsAndGroups, objectInParameter)
              /\ ~HasObjectNamed(globalObjectsAndGroups, objectInParameter)
              /\ ~HasGroup(objectsAndGroups, objectInParameter)
              /\ ~HasGroup(globalObjectsAndGroups, objectInParameter)
      THEN <<"/* Unknown object - skipped. */">>
      ELSE IF /\ info.supplementaryInformation # EmptyString
              /\ GetTypeOfObject(globalObjectsAndGroups, objectsAndGroups,
                                 objectInParameter)
                   # info.supplementaryInformation
      THEN <<"/* Mismatched object type - skipped. */">>
      ELSE EmptyString

VerifyObjectParameters(instruction, instrInfos) ==
  LET failing == {pNb \in 0..(Len(instrInfos.parameters) - 1) :
                    ObjectParameterProblem(instruction, instrInfos, pNb)
                      # EmptyString}
  IN  IF failing = {} THEN EmptyString
      ELSE ObjectParameterProblem(instruction, instrInfos, Min(failing))

\* gd::ParameterMetadataTools::IterateOverParameters: the name in the last
\* object parameter before index i (from 1).
LastObjectName(parameters, parametersInfo, i) ==
  LET objects == {j \in 1..(i - 1) : IsObject(parametersInfo[j].type)}
  IN  IF objects = {} THEN EmptyString
      ELSE IF Max(objects) <= Len(parameters) THEN parameters[Max(objects)]
      ELSE EmptyString

GenerateParametersCodes(parameters, parametersInfo, ctx, supplementaryParametersTypes) ==
  [i \in 1..Len(parametersInfo) |->
     GenerateParameterCodes(
       IF i <= Len(parameters) THEN parameters[i] ELSE EmptyString,
       parametersInfo[i], ctx,
       LastObjectName(parameters, parametersInfo, i),
       supplementaryParametersTypes)]

\* EventsCodeGenerator::GenerateReferenceToUpperScopeBoolean
GenerateReferenceToUpperScopeBoolean(referenceName, referencedBoolean, ctx) ==
  <<"bool & ">> \o referenceName \o <<" = ">> \o referencedBoolean \o <<";\n">>

RECURSIVE GenerateConditionsListCode(_, _)

\* What the hook "nest" returns once the sub instructions are compiled.
NestedConditionsCode(instruction, instrInfos, sub) ==
  [code |-> <<"/* custom ">> \o instrInfos.codeExtraInformation.functionCallName
              \o <<" */\n">> \o sub.code,
   st |-> sub.st,
   instruction |-> [instruction EXCEPT !.subInstructions = sub.instructions]]

\* The custom code generator of an instruction's metadata: a function of the
\* extension.  "echo" emits the parameters it is given; "nest" compiles the
\* sub instructions as a list of conditions, with the context it is given.
CustomCodeGenerator(instruction, instrInfos, st) ==
  IF instrInfos.codeExtraInformation.customCodeGenerator = "nest"
  THEN NestedConditionsCode(instruction, instrInfos,
         GenerateConditionsListCode(instruction.subInstructions, st))
  ELSE
  [code |-> <<"/* custom ">> \o instrInfos.codeExtraInformation.functionCallName
              \o <<"(">> \o GenerateArgumentsList(instruction.parameters, 0)
              \o <<") */">>,
   st |-> st,
   instruction |-> instruction]

\* A generator that records the depth once the custom condition is left.
TrackDepthAndLeave_LeavesFirst(st) ==
  [st EXCEPT
     !.maxCustomConditionsDepth =
        Max({@, GetCurrentConditionDepth(LeaveCustomCondition(st.context))}),
     !.context = LeaveCustomCondition(@)]

\* "maxCustomConditionsDepth = std::max(maxCustomConditionsDepth,
\* context.GetCurrentConditionDepth()); context.LeaveCustomCondition();"
TrackDepthAndLeave(st) ==
  [st EXCEPT
     !.maxCustomConditionsDepth =
        Max({@, GetCurrentConditionDepth(st.context)}),
     !.context = LeaveCustomCondition(@)]

\* What GenerateConditionCode returns for the code of the hook: the
\* reference to the upper scope's boolean and the hook's code, in a block.
CustomConditionCode(returnBoolean, enteredContext, custom) ==
  [code |-> <<"{">>
              \o GenerateReferenceToUpperScopeBoolean(<<"conditionTrue">>,
                                                      returnBoolean,
                                                      enteredContext)
              \o custom.code \o <<"}\n">>,
   st |-> TrackDepthAndLeave(custom.st),
   instruction |-> custom.instruction]

\* An instruction compiler that never takes the custom code generator's
\* branch.
DispatchedToCustomCodeGenerator_Never(instrInfos) ==
  FALSE

\* "if (instrInfos.codeExtraInformation.HasCustomCodeGenerator())": the test
\* made right after the include files are added, before the parameters are
\* padded and verified.
DispatchedToCustomCodeGenerator(instrInfos) ==
  HasCustomCodeGenerator(instrInfos)

AddIncludeFiles(st, files) == [st EXCEPT !.includeFiles = @ \cup files]

ReportErrorIf(st, error) == [st EXCEPT !.errorOccurred = @ \/ error]

UnsupportedCapabilityComment ==
  <<"/* Object with unsupported capability - skipped. */\n">>

\* A loop that leaves the object it compiled as the current object.
ContextAfterObject_KeepsCurrentObject(ctx) == ctx

\* "context.SetNoCurrentObject()": the context once the parameters and the
\* call of one expanded object are compiled.
ContextAfterObject(ctx) == SetNoCurrentObject(ctx)

\* A capability check that says every object supports the instruction.
ObjectIsSkipped_Never(objInfo, instrInfos) == FALSE

\* Is the expanded object skipped by this object instruction?
ObjectIsSkipped(objInfo, instrInfos) ==
  IsUnsupportedBaseObjectCapability(objInfo,
                                    instrInfos.requiredBaseObjectCapability)

\* What one builder call leaves: its code is appended and its error, if any,
\* is reported (ReportError).
AddGeneratedCode(acc, generated) ==
  [acc EXCEPT !.code = @ \o generated.code,
              !.st = ReportErrorIf(@, generated.error)]

\* The loop of an object condition over the expanded objects, from index i.
RECURSIVE ObjectConditionLoop(_, _, _, _, _, _)
ObjectConditionLoop(realObjects, i, condition, instrInfos, returnBoolean, acc) ==
  IF i > Len(realObjects) THEN acc
  ELSE
    LET objectType == GetTypeOfObject(globalObjectsAndGroups, objectsAndGroups,
                                      realObjects[i])
        objInfo == GetObjectMetadata(objectType)
        ctx == ObjectsListNeeded(
                 SetCurrentObject(acc.st.context, realObjects[i]),
                 realObjects[i])
    IN  IF ObjectIsSkipped(objInfo, instrInfos)
        THEN ObjectConditionLoop(realObjects, i + 1, condition, instrInfos,
               returnBoolean,
               [acc EXCEPT !.code = @ \o UnsupportedCapabilityComment])
        ELSE ObjectConditionLoop(realObjects, i + 1, condition, instrInfos,
               returnBoolean,
               AddGeneratedCode(
                 [acc EXCEPT
                    !.st = [AddIncludeFiles(@, objInfo.includeFiles)
                              EXCEPT !.context = ContextAfterObject(ctx)]],
                 GenerateObjectCondition(realObjects[i], objInfo,
                   GenerateParametersCodes(condition.parameters,
                                           instrInfos.parameters, ctx, <<>>),
                   instrInfos, returnBoolean, condition.inverted, ctx)))

\* The loop of a behavior condition over the expanded objects, from index i.
RECURSIVE BehaviorConditionLoop(_, _, _, _, _, _, _)
BehaviorConditionLoop(realObjects, i, condition, instrInfos, behaviorType, returnBoolean, acc) ==
  IF i > Len(realObjects) THEN acc
  ELSE
    LET autoInfo == GetBehaviorMetadata(behaviorType)
        ctx == ObjectsListNeeded(
                 SetCurrentObject(acc.st.context, realObjects[i]),
                 realObjects[i])
    IN  BehaviorConditionLoop(realObjects, i + 1, condition, instrInfos,
          behaviorType, returnBoolean,
          AddGeneratedCode(
            [acc EXCEPT
               !.st = [AddIncludeFiles(@, autoInfo.includeFiles)
                         EXCEPT !.context = ContextAfterObject(ctx)]],
            GenerateBehaviorCondition(realObjects[i],
              GetParameter(condition, 1), autoInfo,
              GenerateParametersCodes(condition.parameters,
                                      instrInfos.parameters, ctx, <<>>),
              instrInfos, returnBoolean, condition.inverted, ctx)))

\* GenerateConditionCode once the metadata of the condition's type is found.
GenerateConditionCodeWith(condition, instrInfos, returnBoolean, st) ==
  IF IsBadInstructionMetadata(instrInfos)
  THEN [code |-> <<"/* Unknown instruction - skipped. */">>, st |-> st,
        instruction |-> condition]
  ELSE
  LET st1 == [AddIncludeFiles(st, instrInfos.codeExtraInformation.includeFiles)
                EXCEPT !.maxConditionsListsSize =
                         Max({@, Len(condition.subInstructions)})]
  IN
  IF DispatchedToCustomCodeGenerator(instrInfos)
  THEN
    CustomConditionCode(returnBoolean, EnterCustomCondition(st1.context),
      CustomCodeGenerator(condition, instrInfos,
                          [st1 EXCEPT !.context = EnterCustomCondition(@)]))
  ELSE
  LET padded == [condition EXCEPT
                   !.parameters = PadParameters(@, Len(instrInfos.parameters))]
      problem == VerifyObjectParameters(padded, instrInfos)
      start == [code |-> EmptyString, st |-> st1, instruction |-> padded]
  IN
  IF problem # EmptyString
  THEN [start EXCEPT !.code = problem]
  ELSE IF IsObjectInstruction(instrInfos)
  THEN
    LET objectName == GetParameter(padded, 0)
    IN  IF objectName # EmptyString /\ instrInfos.parameters # <<>>
        THEN ObjectConditionLoop(ExpandObjectsName(objectName, st1.context), 1,
                                 padded, instrInfos, returnBoolean, start)
        ELSE start
  ELSE IF IsBehaviorInstruction(instrInfos)
  THEN
    LET objectName == GetParameter(padded, 0)
        behaviorType == GetTypeOfBehavior(globalObjectsAndGroups,
                                          objectsAndGroups,
                                          GetParameter(padded, 1))
    IN  IF Len(instrInfos.parameters) >= 2
        THEN BehaviorConditionLoop(ExpandObjectsName(objectName, st1.context),
                                   1, padded, instrInfos, behaviorType,
                                   returnBoolean, start)
        ELSE start
  ELSE
    LET supplementaryParametersTypes ==
          << <<"conditionInverted",
               IF padded.inverted THEN <<"true">> ELSE <<"false">> >> >>
    IN  AddGeneratedCode(start,
          GenerateFreeCondition(
            GenerateParametersCodes(padded.parameters, instrInfos.parameters,
                                    st1.context, supplementaryParametersTypes),
            instrInfos, returnBoolean, padded.inverted, st1.context))

\* Returns the code, the generator's state and the condition after the call.
GenerateConditionCode(condition, returnBoolean, st) ==
  GenerateConditionCodeWith(condition, GetConditionMetadata(condition.type),
                            returnBoolean, st)

\* The loop of an object action over the expanded objects, from index i.
RECURSIVE ObjectActionLoop(_, _, _, _, _)
ObjectActionLoop(realObjects, i, action, instrInfos, acc) ==
  IF i > Len(realObjects) THEN acc
  ELSE
    LET objectType == GetTypeOfObject(globalObjectsAndGroups, objectsAndGroups,
                                      realObjects[i])
        objInfo == GetObjectMetadata(objectType)
        ctx == ObjectsListNeeded(
                 SetCurrentObject(acc.st.context, realObjects[i]),
                 realObjects[i])
    IN  IF ObjectIsSkipped(objInfo, instrInfos)
        THEN ObjectActionLoop(realObjects, i + 1, action, instrInfos,
               [acc EXCEPT !.code = @ \o UnsupportedCapabilityComment])
        ELSE ObjectActionLoop(realObjects, i + 1, action, instrInfos,
               AddGeneratedCode(
                 [acc EXCEPT
                    !.st = [AddIncludeFiles(@, objInfo.includeFiles)
                              EXCEPT !.context = ContextAfterObject(ctx)]],
                 GenerateObjectAction(realObjects[i], objInfo,
                   GenerateParametersCodes(action.parameters,
                                           instrInfos.parameters, ctx, <<>>),
                   instrInfos, ctx)))

\* The loop of a behavior action over the expanded objects, from index i.
RECURSIVE BehaviorActionLoop(_, _, _, _, _, _)
BehaviorActionLoop(realObjects, i, action, instrInfos, behaviorType, acc) ==
  IF i > Len(realObjects) THEN acc
  ELSE
    LET autoInfo == GetBehaviorMetadata(behaviorType)
        ctx == ObjectsListNeeded(
                 SetCurrentObject(acc.st.context, realObjects[i]),
                 realObjects[i])
    IN  BehaviorActionLoop(realObjects, i + 1, action, instrInfos, behaviorType,
          AddGeneratedCode(
            [acc EXCEPT
               !.st = [AddIncludeFiles(@, autoInfo.includeFiles)
                         EXCEPT !.context = ContextAfterObject(ctx)]],
            GenerateBehaviorAction(realObjects[i], GetParameter(action, 1),
              autoInfo,
              GenerateParametersCodes(action.parameters, instrInfos.parameters,
                                      ctx, <<>>),
              instrInfos, ctx)))

\* GenerateActionCode once the metadata of the action's type is found.
GenerateActionCodeWith(action, instrInfos, st) ==
  IF IsBadInstructionMetadata(instrInfos)
  THEN [code |-> <<"/* Unknown instruction - skipped. */">>, st |-> st,
        instruction |-> action]
  ELSE
  LET st1 == AddIncludeFiles(st, instrInfos.codeExtraInformation.includeFiles)
  IN
  IF DispatchedToCustomCodeGenerator(instrInfos)
  THEN CustomCodeGenerator(action, instrInfos, st1)
  ELSE
  LET padded == [action EXCEPT
                   !.parameters = PadParameters(@, Len(instrInfos.parameters))]
      problem == VerifyObjectParameters(padded, instrInfos)
      start == [code |-> EmptyString, st |-> st1, instruction |-> padded]
  IN
  IF problem # EmptyString
  THEN [start EXCEPT !.code = problem]
  ELSE IF IsObjectInstruction(instrInfos)
  THEN
    LET objectName == GetParameter(padded, 0)
    IN  IF instrInfos.parameters # <<>>
        THEN ObjectActionLoop(ExpandObjectsName(objectName, st1.context), 1,
                              padded, instrInfos, start)
        ELSE start
  ELSE IF IsBehaviorInstruction(instrInfos)
  THEN
    LET objectName == GetParameter(padded, 0)
        behaviorType == GetTypeOfBehavior(globalObjectsAndGroups,
                                          objectsAndGroups,
                                          GetParameter(padded, 1))
    IN  IF Len(instrInfos.parameters) >= 2
        THEN BehaviorActionLoop(ExpandObjectsName(objectName, st1.context), 1,
                                padded, instrInfos, behaviorType, start)
        ELSE start
  ELSE
    AddGeneratedCode(start,
      GenerateFreeAction(
        GenerateParametersCodes(padded.parameters, instrInfos.parameters,
                                st1.context, <<>>),
        instrInfos, st1.context))

\* Returns the code, the generator's state and the action after the call.
GenerateActionCode(action, st) ==
  GenerateActionCodeWith(action, GetActionMetadata(action.type), st)

(***************************************************************************)
(* Lists of conditions and of actions.                                     *)
(***************************************************************************)
Digits == <<"0", "1", "2", "3", "4", "5", "6", "7", "8", "9">>

\* gd::String::From for a natural number.
RECURSIVE From(_)
From(n) ==
  IF n < Len(Digits) THEN <<Digits[n + 1]>>
  ELSE From(n \div Len(Digits)) \o <<Digits[(n % Len(Digits)) + 1]>>

ConditionIsTrue(i) == <<"condition">> \o From(i) \o <<"IsTrue">>

\* EventsCodeGenerator::GenerateBooleanInitializationToFalse
GenerateBooleanInitializationToFalse(boolName, ctx) ==
  <<"bool ">> \o boolName \o <<" = false;\n">>

\* A guard that leaves out the flag of the condition just before.
RECURSIVE ConditionGuard_SkipsPrevious(_, _)
ConditionGuard_SkipsPrevious(cId, i) ==
  IF i + 1 >= cId THEN <<>>
  ELSE (IF i = 0 THEN <<"if ( ">> ELSE <<" && ">>)
         \o ConditionIsTrue(i)
         \o (IF i = cId - 2 THEN <<") ">> ELSE <<>>)
         \o ConditionGuard_SkipsPrevious(cId, i + 1)

\* A guard made of the flag of the condition just before only.
ConditionGuard_OnlyPrevious(cId, i) ==
  IF cId = 0 THEN <<>>
  ELSE <<"if ( ">> \o ConditionIsTrue(cId - 1) \o <<") ">>

\* "Skip conditions if one condition is false": the loop over i < cId.
RECURSIVE ConditionGuard(_, _)
ConditionGuard(cId, i) ==
  IF i >= cId THEN <<>>
  ELSE (IF i = 0 THEN <<"if ( ">> ELSE <<" && ">>)
         \o ConditionIsTrue(i)
         \o (IF i = cId - 1 THEN <<") ">> ELSE <<>>)
         \o ConditionGuard(cId, i + 1)

\* What the second loop appends for condition cId: the guard and the braces
\* around its code, or the comment of a condition with an empty type.
AddConditionCode(acc, cId, generated) ==
  [code |-> acc.code
              \o (IF generated.instruction.type # ""
                  THEN ConditionGuard(cId, 0) \o <<"{\n">> \o generated.code
                         \o <<"}">>
                  ELSE <<"/* Skipped condition (empty type) */">>),
   st |-> generated.st,
   instructions |-> Append(acc.instructions, generated.instruction)]

\* The second loop of GenerateConditionsListCode, from condition cId (from 0).
RECURSIVE ConditionsLoop(_, _, _)
ConditionsLoop(conditions, cId, acc) ==
  IF cId >= Len(conditions) THEN acc
  ELSE ConditionsLoop(conditions, cId + 1,
         AddConditionCode(acc, cId,
           GenerateConditionCode(conditions[cId + 1], ConditionIsTrue(cId),
                                 acc.st)))

GenerateConditionsListCode(conditions, st) ==
  [ConditionsLoop(conditions, 0,
     [code |-> Flatten([i \in 1..Len(conditions) |->
                          GenerateBooleanInitializationToFalse(
                            ConditionIsTrue(i - 1), st.context)]),
      st |-> st, instructions |-> <<>>])
   EXCEPT !.st.maxConditionsListsSize = Max({@, Len(conditions)})]

\* A loop that emits the code generated for an action of empty type.
AddActionCode_KeepsCode(acc, generated) ==
  [code |-> acc.code \o <<"{">> \o generated.code \o <<"}">>,
   st |-> generated.st,
   instructions |-> Append(acc.instructions, generated.instruction)]

\* What the loop appends for action aId: the braces around its code, or
\* around the comment of an action with an empty type.
AddActionCode(acc, generated) ==
  [code |-> acc.code \o <<"{">>
              \o (IF generated.instruction.type = ""
                  THEN <<"/* Skipped action (empty type) */">>
                  ELSE generated.code)
              \o <<"}">>,
   st |-> generated.st,
   instructions |-> Append(acc.instructions, generated.instruction)]

\* The loop of GenerateActionsListCode, from action aId (from 0).
RECURSIVE ActionsLoop(_, _, _)
ActionsLoop(actions, aId, acc) ==
  IF aId >= Len(actions) THEN acc
  ELSE ActionsLoop(actions, aId + 1,
         AddActionCode(acc, GenerateActionCode(actions[aId + 1], acc.st)))

GenerateActionsListCode(actions, st) ==
  ActionsLoop(actions, 0,
              [code |-> EmptyString, st |-> st, instructions |-> <<>>])

(***************************************************************************)
(* Scopes: the contexts of the events of a list and the declarations of    *)
(* the objects lists they need.                                            *)
(***************************************************************************)
\* gd::EventsCodeGenerationContext::InheritsFrom: what the parent declares
\* or is about to declare is already declared for the child, one level
\* deeper.
InheritsFrom(parent) ==
  [RootContext EXCEPT
     !.alreadyDeclaredObjectsLists =
        parent.alreadyDeclaredObjectsLists
          \cup parent.objectsListsToBeDeclared
          \cup parent.objectsListsWithoutPickingToBeDeclared
          \cup parent.emptyObjectsListsToBeDeclared,
     !.depthOfLastUse = parent.depthOfLastUse,
     !.customConditionDepth = parent.customConditionDepth,
     !.contextDepth = parent.contextDepth + 1,
     !.hasParent = TRUE,
     !.parentDepthOfLastUse = parent.depthOfLastUse]

\* gd::EventsCodeGenerationContext::CanReuse
CanReuse(ctx) == ~ctx.reuseExplicitlyForbidden /\ ctx.hasParent

\* gd::EventsCodeGenerationContext::ForbidReuse
ForbidReuse(ctx) == [ctx EXCEPT !.reuseExplicitlyForbidden = TRUE]

\* gd::EventsCodeGenerationContext::Reuse: the child keeps the depth of a
\* parent that can be reused.
Reuse(parent) ==
  IF CanReuse(parent)
  THEN [InheritsFrom(parent) EXCEPT !.contextDepth = parent.contextDepth]
  ELSE InheritsFrom(parent)

\* gd::EventsCodeGenerationContext::ObjectsListWithoutPickingNeeded
ObjectsListWithoutPickingNeeded(ctx, name) ==
  [ctx EXCEPT
     !.objectsListsWithoutPickingToBeDeclared =
        IF IsToBeDeclared(ctx, name) THEN @ ELSE @ \cup {name},
     !.depthOfLastUse =
        [n \in DOMAIN @ \cup {name} |->
           IF n = name THEN ctx.contextDepth ELSE @[n]]]

\* gd::EventsCodeGenerationContext::EmptyObjectsListNeeded
EmptyObjectsListNeeded(ctx, name) ==
  [ctx EXCEPT
     !.emptyObjectsListsToBeDeclared =
        IF IsToBeDeclared(ctx, name) THEN @ ELSE @ \cup {name},
     !.depthOfLastUse =
        [n \in DOMAIN @ \cup {name} |->
           IF n = name THEN ctx.contextDepth ELSE @[n]]]

\* gd::EventsCodeGenerationContext::GetLastDepthObjectListWasNeeded
GetLastDepthObjectListWasNeeded(depthOfLastUse, name) ==
  IF name \in DOMAIN depthOfLastUse THEN depthOfLastUse[name] ELSE 0

\* gd::EventsCodeGenerationContext::IsSameObjectsList, against the parent.
IsSameObjectsList(ctx, name) ==
  GetLastDepthObjectListWasNeeded(ctx.depthOfLastUse, name)
    = GetLastDepthObjectListWasNeeded(ctx.parentDepthOfLastUse, name)

ObjectAlreadyDeclared(ctx, name) == name \in ctx.alreadyDeclaredObjectsLists

SetObjectDeclared(ctx, name) ==
  [ctx EXCEPT !.alreadyDeclaredObjectsLists = @ \cup {name}]

\* The order in which a std::set<gd::String> is iterated.
NamesInOrder == << <<"A">>, <<"B">>, <<"C">>, <<"G">>, <<"Z">> >>

Sorted(names) == SelectSeq(NamesInOrder, LAMBDA n : n \in names)

\* A lambda that does not look for the parent context.
DeclareObjectList_NoParentCheck(object, ctx) ==
  IF IsSameObjectsList(ctx, object)
  THEN <<"/* Reuse ">> \o GetObjectListName(object, ctx) \o <<" */">>
  ELSE <<"std::vector<RuntimeObject*> & ">> \o GetObjectListName(object, ctx)
         \o <<"T = ">> \o GetObjectListName(object, ctx) \o <<";\n">>
         \o <<"std::vector<RuntimeObject*> ">> \o GetObjectListName(object, ctx)
         \o <<" = ">> \o GetObjectListName(object, ctx) \o <<"T;\n">>

\* The lambda declareObjectList: the declaration of a list that is already
\* declared.
DeclareObjectList(object, ctx) ==
  LET objectListName == GetObjectListName(object, ctx)
      copiedListName == GetObjectListName(object, ctx)
  IN  IF ~ctx.hasParent
      THEN <<"/* Could not declare ">> \o objectListName \o <<" */">>
      ELSE IF IsSameObjectsList(ctx, object)
      THEN <<"/* Reuse ">> \o objectListName \o <<" */">>
      ELSE <<"std::vector<RuntimeObject*> & ">> \o objectListName
             \o <<"T = ">> \o copiedListName \o <<";\n">>
             \o <<"std::vector<RuntimeObject*> ">> \o objectListName
             \o <<" = ">> \o objectListName \o <<"T;\n">>

\* A list needed with picking declared from the runtime in every scope.
DeclarationWithPicking_AlwaysFresh(object, ctx) ==
  <<"std::vector<RuntimeObject*> ">> \o GetObjectListName(object, ctx)
    \o <<" = runtimeContext->GetObjectsRawPointers(\"">>
    \o ConvertToString(object) \o <<"\");\n">>

\* The declaration of a list needed with picking.
DeclarationWithPicking(object, ctx) ==
  IF ~ObjectAlreadyDeclared(ctx, object)
  THEN <<"std::vector<RuntimeObject*> ">> \o GetObjectListName(object, ctx)
         \o <<" = runtimeContext->GetObjectsRawPointers(\"">>
         \o ConvertToString(object) \o <<"\");\n">>
  ELSE DeclareObjectList(object, ctx)

\* The declaration of a list needed without picking.
DeclarationWithoutPicking(object, ctx) ==
  IF ~ObjectAlreadyDeclared(ctx, object)
  THEN <<"std::vector<RuntimeObject*> ">> \o GetObjectListName(object, ctx)
         \o <<";\n">>
  ELSE DeclareObjectList(object, ctx)

\* The declaration of a list needed empty: the same in both branches.
DeclarationEmpty(object, ctx) ==
  IF ~ObjectAlreadyDeclared(ctx, object)
  THEN <<"std::vector<RuntimeObject*> ">> \o GetObjectListName(object, ctx)
         \o <<";\n">>
  ELSE <<"std::vector<RuntimeObject*> ">> \o GetObjectListName(object, ctx)
         \o <<";\n">>

\* One of the three loops of GenerateObjectsDeclarationCode, over the names
\* objects from index i; kind tells which loop.
RECURSIVE DeclarationsLoop(_, _, _, _)
DeclarationsLoop(kind, objects, i, acc) ==
  IF i > Len(objects) THEN acc
  ELSE
    LET object == objects[i]
        objectListDeclaration ==
          CASE kind = "picking" -> DeclarationWithPicking(object, acc.context)
            [] kind = "withoutPicking" ->
                 DeclarationWithoutPicking(object, acc.context)
            [] OTHER -> DeclarationEmpty(object, acc.context)
    IN  DeclarationsLoop(kind, objects, i + 1,
          [code |-> acc.code \o objectListDeclaration \o <<"\n">>,
           context |-> IF ~ObjectAlreadyDeclared(acc.context, object)
                       THEN SetObjectDeclared(acc.context, object)
                       ELSE acc.context])

\* Returns the declarations and the context after them.
GenerateObjectsDeclarationCode(ctx) ==
  LET picking == DeclarationsLoop("picking",
                   Sorted(ctx.objectsListsToBeDeclared), 1,
                   [code |-> EmptyString, context |-> ctx])
      withoutPicking == DeclarationsLoop("withoutPicking",
                          Sorted(ctx.objectsListsWithoutPickingToBeDeclared), 1,
                          picking)
  IN  DeclarationsLoop("empty", Sorted(ctx.emptyObjectsListsToBeDeclared), 1,
                       withoutPicking)

\* EventsCodeGenerator::GenerateScopeBegin and GenerateScopeEnd
GenerateScopeBegin(ctx) == <<"{\n">>
GenerateScopeEnd(ctx) == <<"}\n">>

\* A list whose every event aliases a reusable parent.
ReuseParentContext_AnySibling(parentContext, eId, size) == CanReuse(parentContext)

\* "When the event is the last of a list, we can use the same lists of
\* objects as the parent."
ReuseParentContext(parentContext, eId, size) ==
  CanReuse(parentContext) /\ eId = size - 1

\* A request for the list of an object.
Need(kind, name) == [kind |-> kind, name |-> name]

\* An event asks its context for the objects lists it needs, one request
\* after the other.
RECURSIVE NeedObjectsLists(_, _)
NeedObjectsLists(ctx, needs) ==
  IF needs = <<>> THEN ctx
  ELSE LET need == Head(needs)
           needed ==
             CASE need.kind = "picking" -> ObjectsListNeeded(ctx, need.name)
               [] need.kind = "withoutPicking" ->
                    ObjectsListWithoutPickingNeeded(ctx, need.name)
               [] OTHER -> EmptyObjectsListNeeded(ctx, need.name)
       IN  NeedObjectsLists(needed, Tail(needs))

\* A fragment whose body comes before the declarations.
EventFragment_BodyFirst(scopeBegin, declarationsCode, eventCoreCode, scopeEnd) ==
  <<"\n">> \o scopeBegin \o <<"\n">> \o eventCoreCode \o <<"\n">>
    \o declarationsCode \o <<"\n">> \o scopeEnd \o <<"\n">>

\* What an event adds to the output of its list.
EventFragment(scopeBegin, declarationsCode, eventCoreCode, scopeEnd) ==
  <<"\n">> \o scopeBegin \o <<"\n">> \o declarationsCode \o <<"\n">>
    \o eventCoreCode \o <<"\n">> \o scopeEnd \o <<"\n">>

RECURSIVE GenerateEventsListCode(_, _)
RECURSIVE GenerateEventCode(_, _)
RECURSIVE EventsLoop(_, _, _, _)

\* gd::BaseEvent::GenerateEventCode: the event requests its lists, may
\* forbid the reuse of its context, and compiles its sub events with its
\* context as their parent.  Returns the code, the context after the call
\* and the scopes compiled below the event.
GenerateEventCode(event, ctx) ==
  LET needed == NeedObjectsLists(ctx, event.needs)
      own == IF event.forbidReuse THEN ForbidReuse(needed) ELSE needed
  IN  IF event.subEvents = <<>>
      THEN [code |-> <<"/* event */\n">>, context |-> own, compiled |-> <<>>]
      ELSE LET sub == GenerateEventsListCode(event.subEvents, own)
           IN  [code |-> <<"/* event */\n", "\n{ //Subevents\n">> \o sub.code
                           \o <<"} //End of subevents\n">>,
                context |-> own,
                compiled |-> sub.compiled]

\* The loop of GenerateEventsListCode from event eId (from 0).  compiled
\* records, for each event, the scope it was compiled in.
EventsLoop(events, eId, parentContext, acc) ==
  IF eId >= Len(events) THEN acc
  ELSE
    LET newContext == InheritsFrom(parentContext)
        reuseParentContext == ReuseParentContext(parentContext, eId, Len(events))
        reusedContext == Reuse(parentContext)
        ctx == IF reuseParentContext THEN reusedContext ELSE newContext
        generated == GenerateEventCode(events[eId + 1], ctx)
        scopeBegin == GenerateScopeBegin(generated.context)
        scopeEnd == GenerateScopeEnd(generated.context)
        declared == GenerateObjectsDeclarationCode(generated.context)
        scope == [event |-> events[eId + 1],
                  eId |-> eId,
                  size |-> Len(events),
                  parentContext |-> parentContext,
                  context |-> generated.context,
                  declarationsCode |-> declared.code,
                  declaredContext |-> declared.context]
    IN  EventsLoop(events, eId + 1, parentContext,
          [code |-> acc.code \o EventFragment(scopeBegin, declared.code,
                                              generated.code, scopeEnd),
           compiled |-> acc.compiled \o <<scope>> \o generated.compiled])

GenerateEventsListCode(events, parentContext) ==
  EventsLoop(events, 0, parentContext,
             [code |-> EmptyString, compiled |-> <<>>])

(***************************************************************************)
(* Unique-ID allocator.                                                    *)
(***************************************************************************)
\* An instruction pointer cast to size_t; 0 is the null pointer.
InstructionAddresses == 0..MaxAddress

\* The loop `while (ids.find(uniqueId) != ids.end()) uniqueId++;`.
RECURSIVE FirstUnusedFrom(_, _)
FirstUnusedFrom(uniqueId, ids) ==
  IF uniqueId \in ids THEN FirstUnusedFrom(uniqueId + 1, ids) ELSE uniqueId

\* A generator that returns the address without looking at the taken set.
GenerateSingleUsageUniqueIdFor_NoBump(instruction, ids) ==
  [id  |-> instruction, ids |-> ids \cup {instruction}]

\* A generator that bumps past the taken set but does not record the result.
GenerateSingleUsageUniqueIdFor_NoRecord(instruction, ids) ==
  [id  |-> FirstUnusedFrom(instruction, ids), ids |-> ids]

\* Returns the id and the taken set after the call.
GenerateSingleUsageUniqueIdFor(instruction, ids) ==
  LET uniqueId == FirstUnusedFrom(instruction, ids)
  IN  [id  |-> uniqueId, ids |-> ids \cup {uniqueId}]

NoCall == [op |-> "none"]

\* The state of a generator right after its constructor.
Constructed ==
  /\ errorOccurred = FALSE
  /\ instructionUniqueIds = {}
  /\ maxCustomConditionsDepth = 0
  /\ maxConditionsListsSize = 0
  /\ includeFiles = {}

InitIds ==
  /\ Constructed
  /\ globalObjectsAndGroups = EmptyContainer
  /\ objectsAndGroups = EmptyContainer
  /\ context = RootContext
  /\ call = NoCall
  /\ output = <<>>
  /\ history = [calls |-> <<>>, ids |-> <<>>, replayTaken |-> {},
                replayIds |-> <<>>, replaying |-> FALSE]

\* One call of GenerateSingleUsageUniqueIdFor in the generation pass.
CallGenerateSingleUsageUniqueIdFor ==
  /\ ~history.replaying
  /\ Len(history.calls) < MaxIdCalls
  /\ \E instruction \in InstructionAddresses :
       LET r == GenerateSingleUsageUniqueIdFor(instruction, instructionUniqueIds)
       IN  /\ instructionUniqueIds' = r.ids
           /\ call' = [op |-> "GenerateSingleUsageUniqueIdFor",
                       instruction |-> instruction]
           /\ output' = r.id
           /\ history' = [history EXCEPT !.calls = Append(@, instruction),
                                         !.ids = Append(@, r.id)]
  /\ UNCHANGED <<errorOccurred, maxCustomConditionsDepth,
                 maxConditionsListsSize, includeFiles, globalObjectsAndGroups,
                 objectsAndGroups, context>>

\* The same call sequence is started again on a freshly constructed generator.
StartSecondGeneration ==
  /\ ~history.replaying
  /\ Len(history.calls) > 0
  /\ history' = [history EXCEPT !.replaying = TRUE]
  /\ call' = [op |-> "EventsCodeGenerator"]
  /\ UNCHANGED <<errorOccurred, instructionUniqueIds, maxCustomConditionsDepth,
                 maxConditionsListsSize, includeFiles, globalObjectsAndGroups,
                 objectsAndGroups, context, output>>

\* The next call of the recorded sequence, on the second generator.
ReplayGenerateSingleUsageUniqueIdFor ==
  /\ history.replaying
  /\ Len(history.replayIds) < Len(history.calls)
  /\ LET instruction == history.calls[Len(history.replayIds) + 1]
         r == GenerateSingleUsageUniqueIdFor(instruction, history.replayTaken)
     IN  /\ history' = [history EXCEPT !.replayTaken = r.ids,
                                       !.replayIds = Append(@, r.id)]
         /\ call' = [op |-> "GenerateSingleUsageUniqueIdFor",
                     instruction |-> instruction]
         /\ output' = r.id
  /\ UNCHANGED <<errorOccurred, instructionUniqueIds, maxCustomConditionsDepth,
                 maxConditionsListsSize, includeFiles, globalObjectsAndGroups,
                 objectsAndGroups, context>>

NextIds ==
  \/ CallGenerateSingleUsageUniqueIdFor
  \/ StartSecondGeneration
  \/ ReplayGenerateSingleUsageUniqueIdFor

SpecIds == InitIds /\ [][NextIds]_vars

(***************************************************************************)
(* The resolver called on every project: SpecExpand.                      *)
(***************************************************************************)
\* The member lists a group can have: ordered, without repetition, possibly
\* naming an object that no longer exists.
GroupMembers ==
  {m \in SeqsUpTo(ObjectNames \cup {StaleName}, MaxGroupSize) : NoDuplicates(m)}

GroupsContainers == UNION {[S -> GroupMembers] : S \in SUBSET GroupNames}

ObjectsOf(names) == [n \in names |-> <<"Sprite">>]

InitExpand ==
  /\ Constructed
  /\ \E local \in SUBSET {<<"A">>, <<"B">>}, groups \in GroupsContainers :
       objectsAndGroups = [objects |-> ObjectsOf(local), groups |-> groups]
  /\ \E global \in SUBSET {<<"B">>, <<"C">>}, groups \in GroupsContainers :
       globalObjectsAndGroups = [objects |-> ObjectsOf(global), groups |-> groups]
  /\ context = RootContext
  /\ call = NoCall
  /\ output = <<>>
  /\ history = <<>>

CallExpandObjectsName ==
  /\ \E objectName \in ObjectNames \cup GroupNames \cup {StaleName} :
       /\ call' = [op |-> "ExpandObjectsName", objectName |-> objectName,
                   currentObject |-> GetCurrentObject(context)]
       /\ output' = ExpandObjectsName(objectName, context)
  /\ UNCHANGED <<errorOccurred, instructionUniqueIds, maxCustomConditionsDepth,
                 maxConditionsListsSize, includeFiles, globalObjectsAndGroups,
                 objectsAndGroups, context, history>>

\* The instruction compiler makes an expanded object the current object
\* (context.SetCurrentObject(realObjects[i])) ...
CallSetCurrentObject ==
  /\ call.op = "ExpandObjectsName"
  /\ \E i \in 1..Len(output) :
       /\ context' = SetCurrentObject(context, output[i])
       /\ call' = [op |-> "SetCurrentObject", objectName |-> output[i]]
  /\ UNCHANGED <<errorOccurred, instructionUniqueIds, maxCustomConditionsDepth,
                 maxConditionsListsSize, includeFiles, globalObjectsAndGroups,
                 objectsAndGroups, output, history>>

\* ... and clears it once the object's call is generated.
CallSetNoCurrentObject ==
  /\ GetCurrentObject(context) # EmptyString
  /\ context' = SetNoCurrentObject(context)
  /\ call' = [op |-> "SetNoCurrentObject"]
  /\ UNCHANGED <<errorOccurred, instructionUniqueIds, maxCustomConditionsDepth,
                 maxConditionsListsSize, includeFiles, globalObjectsAndGroups,
                 objectsAndGroups, output, history>>

NextExpand ==
  \/ CallExpandObjectsName
  \/ CallSetCurrentObject
  \/ CallSetNoCurrentObject

SpecExpand == InitExpand /\ [][NextExpand]_vars

(***************************************************************************)
(* The parameter compiler called on every raw token: SpecParam.            *)
(***************************************************************************)
TokenChars == {"=", "<", ">", "!", "+", "-", "*", "/", "\"", "x"}

\* The raw tokens: the short tokens over the operator characters, the same
\* tokens without a quote supplied between quotes, and the plain strings over
\* the characters that the escaping replaces.
RawTokens ==
  SeqsUpTo(TokenChars, MaxTokenLen)
    \cup {<<"\"">> \o t \o <<"\"">> :
            t \in SeqsUpTo(TokenChars \ {"\""}, MaxTokenLen)}
    \cup SeqsUpTo({"\\", "\r", "\n", "\"", "n", "x"}, MaxPlainLen)

ParameterMetadatas ==
  {[type |-> t, supplementaryInformation |-> EmptyString] :
     t \in {"relationalOperator", "operator", "key", "yesorno"}}

\* The raw token and the parameter's metadata are chosen; the call is pending.
InitParam ==
  /\ Constructed
  /\ globalObjectsAndGroups = EmptyContainer
  /\ objectsAndGroups = EmptyContainer
  /\ context = RootContext
  /\ \E parameter \in RawTokens, metadata \in ParameterMetadatas :
       call = [op |-> "pending", parameter |-> parameter,
               metadata |-> metadata, errorBefore |-> FALSE]
  /\ output = <<>>
  /\ history = <<>>

CallGenerateParameterCodes ==
  /\ call.op = "pending"
  /\ call' = [call EXCEPT !.op = "GenerateParameterCodes",
                          !.errorBefore = errorOccurred]
  /\ output' = GenerateParameterCodes(call.parameter, call.metadata, context,
                                      EmptyString, <<>>)
  /\ UNCHANGED <<errorOccurred, instructionUniqueIds, maxCustomConditionsDepth,
                 maxConditionsListsSize, includeFiles, globalObjectsAndGroups,
                 objectsAndGroups, context, history>>

\* ConvertToString is called on the raw token.
CallConvertToString ==
  /\ call.op = "pending"
  /\ call' = [call EXCEPT !.op = "ConvertToString",
                          !.errorBefore = errorOccurred]
  /\ output' = ConvertToString(call.parameter)
  /\ UNCHANGED <<errorOccurred, instructionUniqueIds, maxCustomConditionsDepth,
                 maxConditionsListsSize, includeFiles, globalObjectsAndGroups,
                 objectsAndGroups, context, history>>

NextParam ==
  \/ CallGenerateParameterCodes
  \/ CallConvertToString

SpecParam == InitParam /\ [][NextParam]_vars

(***************************************************************************)
(* The four call builders called on every small metadata: SpecBuilders.    *)
(***************************************************************************)
BuilderNames ==
  {"GenerateRelationalOperatorCall", "GenerateOperatorCall",
   "GenerateCompoundOperatorCall", "GenerateMutatorCall"}

\* The metadata of an instruction of value type number whose parameters have
\* the given types.
BuilderMetadata(types) ==
  Metadata("free", [i \in 1..Len(types) |-> Param(types[i])],
           ExtraInformation("set", "number", "Reference", "none"), "")

\* The raw parameters of the instruction: the operator token, a relational
\* token, or the digit of the parameter's index.
BuilderParameters(types, token) ==
  [i \in 1..Len(types) |->
     CASE types[i] = "operator" -> token
       [] types[i] = "relationalOperator" -> <<"<">>
       [] OTHER -> <<Digits[i]>>]

\* The metadata, the operator token, the builder and its start index are
\* chosen; the generator may have reported an error before.
InitBuilders ==
  /\ errorOccurred \in BOOLEAN
  /\ instructionUniqueIds = {}
  /\ maxCustomConditionsDepth = 0
  /\ maxConditionsListsSize = 0
  /\ includeFiles = {}
  /\ globalObjectsAndGroups = EmptyContainer
  /\ objectsAndGroups = EmptyContainer
  /\ context = RootContext
  /\ \E types \in SeqsUpTo({"operator", "relationalOperator", "expression"},
                           MaxBuilderParameters),
        token \in Operators,
        builder \in BuilderNames \cup {"GenerateFreeAction"},
        startFromArgument \in 0..MaxStartFromArgument :
       /\ builder = "GenerateFreeAction" => startFromArgument = 0
       /\ call = [op |-> "pending", builder |-> builder, types |-> types,
                  token |-> token, startFromArgument |-> startFromArgument,
                  errorBefore |-> errorOccurred]
  /\ output = <<>>
  /\ history = <<>>

\* The builder named, called on the instruction's metadata and arguments.
Build(builder, instrInfos, arguments, startFromArgument) ==
  CASE builder = "GenerateRelationalOperatorCall" ->
         GenerateRelationalOperatorCall(instrInfos, arguments, <<"call">>,
                                        startFromArgument)
    [] builder = "GenerateOperatorCall" ->
         GenerateOperatorCall(instrInfos, arguments, <<"call">>, <<"getter">>,
                              startFromArgument)
    [] builder = "GenerateCompoundOperatorCall" ->
         GenerateCompoundOperatorCall(instrInfos, arguments, <<"call">>,
                                      startFromArgument)
    [] builder = "GenerateMutatorCall" ->
         GenerateMutatorCall(instrInfos, arguments, <<"call">>,
                             startFromArgument)

\* The builder returns its code; ReportError sets the error flag.
ReturnsBuilt(built) ==
  /\ errorOccurred' = (errorOccurred \/ built.error)
  /\ output' = built.code
  /\ call' = [call EXCEPT !.op = "returned"]
  /\ UNCHANGED <<instructionUniqueIds, maxCustomConditionsDepth,
                 maxConditionsListsSize, includeFiles, globalObjectsAndGroups,
                 objectsAndGroups, context, history>>

\* The arguments are the compiled parameters, as GenerateParametersCodes
\* hands them to the builder.
CallBuilder ==
  /\ call.op = "pending"
  /\ call.builder \in BuilderNames
  /\ ReturnsBuilt(
       Build(call.builder, BuilderMetadata(call.types),
             GenerateParametersCodes(BuilderParameters(call.types, call.token),
                                     BuilderMetadata(call.types).parameters,
                                     context, <<>>),
             call.startFromArgument))

\* The free action of the metadata, called on the compiled parameters.
CallGenerateFreeAction ==
  /\ call.op = "pending"
  /\ call.builder = "GenerateFreeAction"
  /\ ReturnsBuilt(
       GenerateFreeAction(
         GenerateParametersCodes(BuilderParameters(call.types, call.token),
                                 BuilderMetadata(call.types).parameters,
                                 context, <<>>),
         BuilderMetadata(call.types), context))

NextBuilders ==
  \/ CallBuilder
  \/ CallGenerateFreeAction

SpecBuilders == InitBuilders /\ [][NextBuilders]_vars

(***************************************************************************)
(* The instruction compiler and the list compilers called on every         *)
(* instruction of the platform: Spec.                                      *)
(***************************************************************************)
\* The values a raw parameter takes, by the type of its metadata.
ParameterValues(type) ==
  CASE IsObject(type) -> {<<"G">>, <<"A">>, <<"B">>, StaleName}
    [] type = "relationalOperator" -> {<<"<">>, <<"=">>}
    [] type = "operator" -> {<<"+">>, <<"=">>, <<"x">>}
    [] type = "behavior" -> {<<"Physics">>}
    [] type = "conditionInverted" -> {EmptyString}
    [] OTHER -> {<<"5">>}

\* The parameter lists of length k of an instruction: a value for each
\* parameter of the metadata, then parameters the metadata does not declare.
RECURSIVE ParameterLists(_, _)
ParameterLists(instrInfos, k) ==
  IF k = 0 THEN {<<>>}
  ELSE {Append(p, v) :
          p \in ParameterLists(instrInfos, k - 1),
          v \in IF k <= Len(instrInfos.parameters)
                THEN ParameterValues(instrInfos.parameters[k].type)
                ELSE {<<"extra">>}}

Instruction(type, parameters, inverted) ==
  [type |-> type, parameters |-> parameters, inverted |-> inverted,
   subInstructions |-> <<>>]

InstructionsOf(type, instrInfos, inversions) ==
  {Instruction(type, p, inv) :
     p \in UNION {ParameterLists(instrInfos, k) :
                    k \in 0..(Len(instrInfos.parameters) + MaxExtraParameters)},
     inv \in inversions}

\* Instructions of a type the platform does not know, and of the empty type.
UnknownInstructions(inversions) ==
  {Instruction(t, p, inv) :
     t \in {"", "Unknown"}, p \in {<<>>, << <<"A">> >>}, inv \in inversions}

Conditions ==
  UnknownInstructions(BOOLEAN)
    \cup UNION {InstructionsOf(t, GetConditionMetadata(t), BOOLEAN) :
                  t \in ConditionTypes}

Actions ==
  UnknownInstructions({FALSE})
    \cup UNION {InstructionsOf(t, GetActionMetadata(t), {FALSE}) :
                  t \in ActionTypes}

\* The conditions and the actions the lists are made of.
ListConditions ==
  {Instruction("Free", << <<"5">> >>, FALSE),
   Instruction("Object", << <<"G">> >>, TRUE),
   Instruction("Object", << StaleName, <<"5">> >>, FALSE),
   Instruction("ObjectTyped", << <<"B">> >>, FALSE),
   Instruction("Custom", <<>>, FALSE),
   Instruction("Unknown", <<>>, FALSE),
   Instruction("", <<>>, FALSE)}

ListActions ==
  {Instruction("Do", << <<"5">> >>, FALSE),
   Instruction("ObjectCapabilityDo", << <<"G">> >>, FALSE),
   Instruction("ObjectDo", << StaleName, <<"5">> >>, FALSE),
   Instruction("ObjectTypedDo", << <<"B">> >>, FALSE),
   Instruction("CustomDo", <<>>, FALSE),
   Instruction("Unknown", <<>>, FALSE),
   Instruction("", <<>>, FALSE)}

\* The layout holds the objects A (a Sprite) and B (a Text) and the group G;
\* the project holds the object C (a Sprite).
InstructionGroupMembers ==
  {m \in SeqsUpTo(ObjectNames \cup {StaleName}, MaxObjectsInGroup) :
     NoDuplicates(m)}

\* The members of G when a list is compiled: the objects of the layout.
ListGroupMembers ==
  {m \in SeqsUpTo({<<"A">>, <<"B">>}, MaxGroupSize) : NoDuplicates(m)}

PendingCalls ==
  {[op |-> "pending", method |-> "GenerateConditionCode", instruction |-> c] :
     c \in Conditions}
    \cup {[op |-> "pending", method |-> "GenerateActionCode", instruction |-> a] :
            a \in Actions}
    \cup {[op |-> "pending", method |-> "GenerateConditionsListCode",
           instructions |-> l] : l \in SeqsUpTo(ListConditions, MaxListLen)}
    \cup {[op |-> "pending", method |-> "GenerateActionsListCode",
           instructions |-> l] : l \in SeqsUpTo(ListActions, MaxListLen)}

Init ==
  /\ Constructed
  /\ call \in PendingCalls
  /\ \E members \in IF "instruction" \in DOMAIN call
                     THEN InstructionGroupMembers ELSE ListGroupMembers :
       objectsAndGroups =
         [objects |-> (<<"A">> :> <<"Sprite">>) @@ (<<"B">> :> <<"Text">>),
          groups |-> (<<"G">> :> members)]
  /\ globalObjectsAndGroups =
       [objects |-> (<<"C">> :> <<"Sprite">>), groups |-> <<>>]
  /\ context = RootContext
  /\ output = <<>>
  /\ history = <<>>

\* The generator's mutable state, as the record the compiler threads.
GeneratorState ==
  [errorOccurred |-> errorOccurred,
   includeFiles |-> includeFiles,
   maxCustomConditionsDepth |-> maxCustomConditionsDepth,
   maxConditionsListsSize |-> maxConditionsListsSize,
   context |-> context]

\* The call returns: the generator and the context are as the call left them.
Returns(result, instructions) ==
  /\ errorOccurred' = result.st.errorOccurred
  /\ includeFiles' = result.st.includeFiles
  /\ maxCustomConditionsDepth' = result.st.maxCustomConditionsDepth
  /\ maxConditionsListsSize' = result.st.maxConditionsListsSize
  /\ context' = result.st.context
  /\ output' = [code |-> result.code, instructions |-> instructions]
  /\ call' = [call EXCEPT !.op = "returned"]
  /\ UNCHANGED <<instructionUniqueIds, globalObjectsAndGroups, objectsAndGroups,
                 history>>

\* The call of a method that compiles one instruction returns.
ReturnsInstruction(result) == Returns(result, <<result.instruction>>)

\* The call of a method that compiles a list of instructions returns.
ReturnsInstructions(result) == Returns(result, result.instructions)

CallGenerateConditionCode ==
  /\ call.op = "pending"
  /\ call.method = "GenerateConditionCode"
  /\ ReturnsInstruction(GenerateConditionCode(call.instruction,
                                              ConditionIsTrue(0),
                                              GeneratorState))

CallGenerateActionCode ==
  /\ call.op = "pending"
  /\ call.method = "GenerateActionCode"
  /\ ReturnsInstruction(GenerateActionCode(call.instruction, GeneratorState))

CallGenerateConditionsListCode ==
  /\ call.op = "pending"
  /\ call.method = "GenerateConditionsListCode"
  /\ ReturnsInstructions(GenerateConditionsListCode(call.instructions,
                                                    GeneratorState))

CallGenerateActionsListCode ==
  /\ call.op = "pending"
  /\ call.method = "GenerateActionsListCode"
  /\ ReturnsInstructions(GenerateActionsListCode(call.instructions,
                                                 GeneratorState))

Next ==
  \/ CallGenerateConditionCode
  \/ CallGenerateActionCode
  \/ CallGenerateConditionsListCode
  \/ CallGenerateActionsListCode

Spec == Init /\ [][Next]_vars

(***************************************************************************)
(* Conditions with a custom code generator, compiled by a generator that   *)
(* has compiled others before, inside or outside a hook: SpecCustom.       *)
(***************************************************************************)
CustomNested(sub) ==
  [type |-> "CustomNested", parameters |-> <<>>, inverted |-> FALSE,
   subInstructions |-> sub]

\* The sub instructions of a nesting condition: a free condition, a custom
\* condition and a nesting condition holding a custom condition.
InnerConditions ==
  {Instruction("Free", << <<"5">> >>, FALSE),
   Instruction("Custom", <<>>, FALSE),
   CustomNested(<<Instruction("Custom", <<>>, FALSE)>>)}

CustomConditions ==
  {Instruction("Custom", <<>>, FALSE)}
    \cup {CustomNested(sub) : sub \in SeqsUpTo(InnerConditions, MaxSubInstructions)}

\* The context is that of the root scope or of a hook (the depth is raised
\* before the hook is called, the maximum after it returns).
InitCustom ==
  /\ errorOccurred = FALSE
  /\ instructionUniqueIds = {}
  /\ maxCustomConditionsDepth \in 0..MaxDepthBefore
  /\ maxConditionsListsSize = 0
  /\ includeFiles = {}
  /\ globalObjectsAndGroups = EmptyContainer
  /\ objectsAndGroups = EmptyContainer
  /\ \E depth \in 0..MaxDepthBefore :
       context = [RootContext EXCEPT !.customConditionDepth = depth]
  /\ \E condition \in CustomConditions :
       call = [op |-> "pending", method |-> "GenerateConditionCode",
               instruction |-> condition,
               depthBefore |-> context.customConditionDepth,
               maxBefore |-> maxCustomConditionsDepth]
  /\ output = <<>>
  /\ history = <<>>

NextCustom == CallGenerateConditionCode

SpecCustom == InitCustom /\ [][NextCustom]_vars

(***************************************************************************)
(* GenerateConditionCode and GenerateActionCode called on the object and   *)
(* behavior instructions while the context has a current object or none:   *)
(* SpecCurrent.                                                            *)
(***************************************************************************)
\* The instructions whose metadata is that of an object or of a behavior.
IsPerObjectCall(c) ==
  /\ "instruction" \in DOMAIN c
  /\ LET instrInfos == IF c.method = "GenerateConditionCode"
                       THEN GetConditionMetadata(c.instruction.type)
                       ELSE GetActionMetadata(c.instruction.type)
     IN  /\ ~IsBadInstructionMetadata(instrInfos)
         /\ ~HasCustomCodeGenerator(instrInfos)
         /\ IsObjectInstruction(instrInfos) \/ IsBehaviorInstruction(instrInfos)

\* The call, with the current object of the context it is given.
WithCurrentObjectBefore(c, currentObject) ==
  [op |-> c.op, method |-> c.method, instruction |-> c.instruction,
   currentObjectBefore |-> currentObject]

InitCurrent ==
  /\ Constructed
  /\ \E c \in {p \in PendingCalls : IsPerObjectCall(p)},
        currentObject \in {EmptyString, <<"A">>, <<"C">>} :
       /\ call = WithCurrentObjectBefore(c, currentObject)
       /\ context = SetCurrentObject(RootContext, currentObject)
  /\ \E members \in InstructionGroupMembers :
       objectsAndGroups =
         [objects |-> (<<"A">> :> <<"Sprite">>) @@ (<<"B">> :> <<"Text">>),
          groups |-> (<<"G">> :> members)]
  /\ globalObjectsAndGroups =
       [objects |-> (<<"C">> :> <<"Sprite">>), groups |-> <<>>]
  /\ output = <<>>
  /\ history = <<>>

NextCurrent ==
  \/ CallGenerateConditionCode
  \/ CallGenerateActionCode

SpecCurrent == InitCurrent /\ [][NextCurrent]_vars

(***************************************************************************)
(* PreprocessEventList walking a list of events, some of which remove      *)
(* themselves from their list when preprocessed: SpecPreprocess.  The      *)
(* events are in output, the calls of Preprocess in history, and the       *)
(* frames of the recursion of PreprocessEventList in call.stack.           *)
(***************************************************************************)
Event(id, removesItself, canHaveSubEvents, subEvents) ==
  [id |-> id, removesItself |-> removesItself,
   canHaveSubEvents |-> canHaveSubEvents, subEvents |-> subEvents]

\* What an event of the list is like: whether its Preprocess removes it,
\* whether it can have sub events, and whether each of its sub events
\* removes itself.
EventShapes ==
  [removesItself : BOOLEAN, canHaveSubEvents : {FALSE}, subEvents : {<<>>}]
    \cup [removesItself : BOOLEAN, canHaveSubEvents : {TRUE},
          subEvents : SeqsUpTo(BOOLEAN, MaxPreprocessEvents - 2)]

\* The events of the shapes given; an event is named after its place.
EventsOfShapes(shapes) ==
  [k \in 1..Len(shapes) |->
     Event(<<k>>, shapes[k].removesItself, shapes[k].canHaveSubEvents,
           [m \in 1..Len(shapes[k].subEvents) |->
              Event(<<k, m>>, shapes[k].subEvents[m], FALSE, <<>>)])]

\* The names of the events of a list and of their sub events.
RECURSIVE EventIds(_)
EventIds(events) ==
  IF events = <<>> THEN {}
  ELSE {Head(events).id} \cup EventIds(Head(events).subEvents)
         \cup EventIds(Tail(events))

\* gd::EventsList::RemoveEvent, at index i (from 0)
RemoveEvent(events, i) ==
  SubSeq(events, 1, i) \o SubSeq(events, i + 2, Len(events))

\* The list of events at the end of path: the sub events of the event at
\* index path[1] (from 0), and so on.
RECURSIVE EventsAt(_, _)
EventsAt(events, path) ==
  IF path = <<>> THEN events
  ELSE EventsAt(events[Head(path) + 1].subEvents, Tail(path))

\* The events with the list at the end of path replaced.
RECURSIVE WithEventsAt(_, _, _)
WithEventsAt(events, path, list) ==
  IF path = <<>> THEN list
  ELSE [events EXCEPT ![Head(path) + 1].subEvents =
                        WithEventsAt(@, Tail(path), list)]

\* gd::BaseEvent::Preprocess of the event at index i of listEvent: the list
\* after the call.
Preprocess(listEvent, i) ==
  IF listEvent[i + 1].removesItself THEN RemoveEvent(listEvent, i)
  ELSE listEvent

InitPreprocess ==
  /\ Constructed
  /\ globalObjectsAndGroups = EmptyContainer
  /\ objectsAndGroups = EmptyContainer
  /\ context = RootContext
  /\ \E shapes \in SeqsUpTo(EventShapes, MaxPreprocessEvents) :
       /\ output = EventsOfShapes(shapes)
       /\ call = [op |-> "PreprocessEventList",
                  listEvent |-> EventsOfShapes(shapes),
                  stack |-> << [path |-> <<>>, i |-> 0, pc |-> "Preprocess"] >>]
  /\ history = <<>>

\* The frame of the call of PreprocessEventList that is running.
Frame == call.stack[Len(call.stack)]

\* The frames with the running one at index i, about to call Preprocess.
NextIteration(i) ==
  [call.stack EXCEPT ![Len(call.stack)] =
                       [path |-> Frame.path, i |-> i, pc |-> "Preprocess"]]

\* The loop's condition holds and Preprocess is called on the event at i.
CallPreprocess ==
  /\ call.stack # <<>>
  /\ Frame.pc = "Preprocess"
  /\ Frame.i < Len(EventsAt(output, Frame.path))
  /\ history' = Append(history, EventsAt(output, Frame.path)[Frame.i + 1].id)
  /\ output' = WithEventsAt(output, Frame.path,
                            Preprocess(EventsAt(output, Frame.path), Frame.i))
  /\ call' = [call EXCEPT !.stack[Len(call.stack)].pc = "SubEvents"]
  /\ UNCHANGED <<errorOccurred, instructionUniqueIds, maxCustomConditionsDepth,
                 maxConditionsListsSize, includeFiles, globalObjectsAndGroups,
                 objectsAndGroups, context>>

\* "Be sure that that there is still an event": the sub events of the event
\* now at index i are walked when there is one that can have sub events;
\* then comes ++i.
CallPreprocessEventListOnSubEvents ==
  /\ call.stack # <<>>
  /\ Frame.pc = "SubEvents"
  /\ call' =
       [call EXCEPT !.stack =
          IF /\ Frame.i < Len(EventsAt(output, Frame.path))
             /\ EventsAt(output, Frame.path)[Frame.i + 1].canHaveSubEvents
          THEN Append(NextIteration(Frame.i + 1),
                      [path |-> Append(Frame.path, Frame.i), i |-> 0,
                       pc |-> "Preprocess"])
          ELSE NextIteration(Frame.i + 1)]
  /\ UNCHANGED <<errorOccurred, instructionUniqueIds, maxCustomConditionsDepth,
                 maxConditionsListsSize, includeFiles, globalObjectsAndGroups,
                 objectsAndGroups, context, output, history>>

\* The loop's condition fails: the call of PreprocessEventList returns.
ReturnFromPreprocessEventList ==
  /\ call.stack # <<>>
  /\ Frame.pc = "Preprocess"
  /\ Frame.i >= Len(EventsAt(output, Frame.path))
  /\ call' = [call EXCEPT !.stack = SubSeq(@, 1, Len(@) - 1)]
  /\ UNCHANGED <<errorOccurred, instructionUniqueIds, maxCustomConditionsDepth,
                 maxConditionsListsSize, includeFiles, globalObjectsAndGroups,
                 objectsAndGroups, context, output, history>>

NextPreprocess ==
  \/ CallPreprocess
  \/ CallPreprocessEventListOnSubEvents
  \/ ReturnFromPreprocessEventList

SpecPreprocess == InitPreprocess /\ [][NextPreprocess]_vars

\* The walk is one thread of control: it goes on until it returns.
SpecPreprocessFair == SpecPreprocess /\ WF_vars(NextPreprocess)

(***************************************************************************)
(* GenerateObjectsDeclarationCode called on a context, with or without a   *)
(* parent, that is asked for objects lists between the calls: SpecDeclare. *)
(***************************************************************************)
InitDeclare ==
  /\ Constructed
  /\ globalObjectsAndGroups = EmptyContainer
  /\ objectsAndGroups = EmptyContainer
  /\ context \in {RootContext, InheritsFrom(RootContext),
                  InheritsFrom(ObjectsListNeeded(RootContext, <<"A">>))}
  /\ call = [op |-> "constructed", needs |-> 0, calls |-> 0]
  /\ output = <<>>
  /\ history = <<>>

\* An instruction or an event asks the context for the list of an object.
CallObjectsListNeeded ==
  /\ call.needs < MaxNeeds
  /\ \E kind \in {"picking", "withoutPicking", "empty"},
        name \in {<<"A">>, <<"B">>} :
       context' = NeedObjectsLists(context, <<Need(kind, name)>>)
  /\ call' = [op |-> "ObjectsListNeeded", needs |-> call.needs + 1,
              calls |-> call.calls]
  /\ UNCHANGED <<errorOccurred, instructionUniqueIds, maxCustomConditionsDepth,
                 maxConditionsListsSize, includeFiles, globalObjectsAndGroups,
                 objectsAndGroups, output, history>>

\* The declarations come back and the lists declared are marked in the
\* context.
CallGenerateObjectsDeclarationCode ==
  /\ call.calls < MaxDeclarationCalls
  /\ context' = GenerateObjectsDeclarationCode(context).context
  /\ output' = GenerateObjectsDeclarationCode(context).code
  /\ call' = [op |-> "GenerateObjectsDeclarationCode", needs |-> call.needs,
              calls |-> call.calls + 1, contextBefore |-> context]
  /\ UNCHANGED <<errorOccurred, instructionUniqueIds, maxCustomConditionsDepth,
                 maxConditionsListsSize, includeFiles, globalObjectsAndGroups,
                 objectsAndGroups, history>>

NextDeclare ==
  \/ CallObjectsListNeeded
  \/ CallGenerateObjectsDeclarationCode

SpecDeclare == InitDeclare /\ [][NextDeclare]_vars

(***************************************************************************)
(* GenerateEventsListCode called on every small list of events, under      *)
(* every kind of parent scope: SpecEvents.                                 *)
(***************************************************************************)
\* What an event asks its context for.
EventNeeds ==
  {<<>>,
   <<Need("picking", <<"A">>)>>,
   <<Need("empty", <<"A">>)>>,
   <<Need("withoutPicking", <<"A">>), Need("picking", <<"B">>)>>}

\* Events without sub events, and the lists made of them.
LeafEvents ==
  {[needs |-> n, forbidReuse |-> FALSE, subEvents |-> <<>>] : n \in EventNeeds}

LeafLists == SeqsUpTo(LeafEvents, MaxEvents)

\* The lists of sub events: each asks for nothing or for the list of A.
SubEventsLists ==
  SeqsUpTo({e \in LeafEvents : Len(e.needs) = 0 \/ e.needs[1].kind = "picking"},
           MaxEvents) \ {<<>>}

\* The lists of events: lists of leaves, one of which may have a list of
\* leaves as its sub events and may forbid the reuse of its context.
EventsLists ==
  LeafLists
    \cup UNION {{[l EXCEPT ![k] = [@ EXCEPT !.forbidReuse = f,
                                            !.subEvents = sub]] :
                   k \in 1..Len(l), f \in BOOLEAN,
                   sub \in SubEventsLists} :
                l \in LeafLists}

\* The scope of an event that is the parent of a list: the root scope (no
\* parent), or the scope of an event of the root list, which may have asked
\* for the list of A and may have forbidden its reuse.
EventScope == InheritsFrom(RootContext)

ParentContexts ==
  {RootContext,
   ObjectsListNeeded(RootContext, <<"A">>),
   EventScope,
   ObjectsListNeeded(EventScope, <<"A">>),
   ForbidReuse(ObjectsListNeeded(EventScope, <<"A">>))}

InitEvents ==
  /\ Constructed
  /\ globalObjectsAndGroups = EmptyContainer
  /\ objectsAndGroups = EmptyContainer
  /\ context \in ParentContexts
  /\ call \in {[op |-> "pending", method |-> "GenerateEventsListCode",
                events |-> l] : l \in EventsLists}
  /\ output = <<>>
  /\ history = <<>>

\* The parent context is const: only the code comes back.
CallGenerateEventsListCode ==
  /\ call.op = "pending"
  /\ call.method = "GenerateEventsListCode"
  /\ LET result == GenerateEventsListCode(call.events, context)
     IN  output' = [code |-> result.code, compiled |-> result.compiled]
  /\ call' = [call EXCEPT !.op = "returned"]
  /\ UNCHANGED <<errorOccurred, instructionUniqueIds, maxCustomConditionsDepth,
                 maxConditionsListsSize, includeFiles, globalObjectsAndGroups,
                 objectsAndGroups, context, history>>

NextEvents == CallGenerateEventsListCode

SpecEvents == InitEvents /\ [][NextEvents]_vars

(***************************************************************************)
(* Claims about the unique-ID allocator.                                   *)
(***************************************************************************)
\* Is call i of the pass the first one made for its node?
FirstCallForNode(i) == \A j \in 1..(i - 1) : history.calls[j] # history.calls[i]

\* The ids returned by the calls before call i.
ReturnedBefore(i) == {history.ids[j] : j \in 1..(i - 1)}

\* C4: within one generator every call of GenerateSingleUsageUniqueIdFor
\* returns a value no earlier call returned, whatever nodes are passed (the
\* same node again, nodes at adjacent addresses), and the value returned is in
\* the taken set afterwards.
C4_IdsNeverRepeat ==
  /\ NoDuplicates(history.ids)
  /\ Range(history.ids) \subseteq instructionUniqueIds

\* C4 witness: a node was passed twice and the node at the next address too.
C4_Witness ==
  \E i, j, k \in 1..Len(history.ids) :
    /\ i < j
    /\ history.calls[i] = history.calls[j]
    /\ history.calls[k] = history.calls[i] + 1

\* C5 as stated: the first call for a node returns the node's base value, for
\* every node and every order of calls, and the second call for the same node
\* returns a value above the base.
C5_FirstCallReturnsBase ==
  \A i \in 1..Len(history.ids) :
    IF FirstCallForNode(i)
    THEN history.ids[i] = history.calls[i]
    ELSE history.ids[i] > history.calls[i]

\* C5 amended: every call returns the least value, at or above the node's base
\* value, that no earlier call of the pass returned (so a first call returns
\* the base value unless an earlier call already returned it, and a second call
\* for the same node returns the next free value above it); and the same call
\* sequence on a fresh generator yields the same ids.
C5_LeastFreeAndStable ==
  /\ \A i \in 1..Len(history.ids) :
       /\ history.ids[i] >= history.calls[i]
       /\ history.ids[i] \notin ReturnedBefore(i)
       /\ \A v \in history.calls[i]..(history.ids[i] - 1) : v \in ReturnedBefore(i)
  /\ \A k \in 1..Len(history.replayIds) : history.replayIds[k] = history.ids[k]

\* C5 witness: the second generation replayed a pass in which a node's base
\* value was already taken at its first call.
C5_Witness ==
  /\ history.replaying
  /\ Len(history.replayIds) = Len(history.calls)
  /\ \E i \in 1..Len(history.ids) :
       FirstCallForNode(i) /\ history.ids[i] # history.calls[i]

(***************************************************************************)
(* Claims about the object/group resolver.                                 *)
(***************************************************************************)
\* The group a name denotes: the layout's group when there is one, else the
\* project's.
DenotedGroup(name) ==
  IF HasGroup(objectsAndGroups, name)
  THEN GetAllObjectsNames(objectsAndGroups, name)
  ELSE GetAllObjectsNames(globalObjectsAndGroups, name)

IsGroupName(name) ==
  HasGroup(objectsAndGroups, name) \/ HasGroup(globalObjectsAndGroups, name)

\* C3: for every group and every composition of its members,
\* ExpandObjectsName(group, context) called while the context's current
\* object is one of the group's members returns exactly that member.
C3_CurrentMemberOnly ==
  (/\ call.op = "ExpandObjectsName"
   /\ IsGroupName(call.objectName)
   /\ call.currentObject \in Range(DenotedGroup(call.objectName)))
    => output = <<call.currentObject>>

\* The name is that of an object of the layout or of the project.
IsExistingObject(name) ==
  \/ name \in DOMAIN objectsAndGroups.objects
  \/ name \in DOMAIN globalObjectsAndGroups.objects

\* The lists of names that the name may stand for: the members of a group
\* of that name, or the name itself when there is no such group.
CandidateLists(name) ==
  IF IsGroupName(name)
  THEN {c.groups[name] :
          c \in {c \in {objectsAndGroups, globalObjectsAndGroups} :
                   name \in DOMAIN c.groups}}
  ELSE {<<name>>}

\* The names of the list that exist, in the order of the list.
Surviving(names) == SelectSeq(names, IsExistingObject)

\* C16: every name returned by ExpandObjectsName is that of an object of the
\* layout or of the project; what is returned is the group's members (or the
\* literal name, or the current object alone when it is one of them)
\* without the names that exist in neither, in their relative order.
C16_OnlyExistingInOrder ==
  call.op = "ExpandObjectsName" =>
    /\ \A i \in 1..Len(output) : IsExistingObject(output[i])
    /\ \E names \in CandidateLists(call.objectName) :
         \/ /\ call.currentObject \notin Range(names)
            /\ output = Surviving(names)
         \/ /\ call.currentObject \in Range(names)
            /\ output = Surviving(<<call.currentObject>>)

\* C16 witness: a group of a name that no longer exists followed by an object
\* expands to the object alone.
C16_Witness ==
  /\ call.op = "ExpandObjectsName"
  /\ IsGroupName(call.objectName)
  /\ CandidateLists(call.objectName) = {<<StaleName, <<"A">> >>}
  /\ call.currentObject = EmptyString
  /\ output = << <<"A">> >>

\* C17: a name that is a group of the layout and a group of the project,
\* with different members, expands to the members of the layout's group
\* (those that exist, or the current object alone when it is one of them).
C17_LocalGroupFirst ==
  (/\ call.op = "ExpandObjectsName"
   /\ call.objectName \in DOMAIN objectsAndGroups.groups
   /\ call.objectName \in DOMAIN globalObjectsAndGroups.groups
   /\ objectsAndGroups.groups[call.objectName]
        # globalObjectsAndGroups.groups[call.objectName])
    => output =
         IF call.currentObject \in Range(objectsAndGroups.groups[call.objectName])
         THEN Surviving(<<call.currentObject>>)
         ELSE Surviving(objectsAndGroups.groups[call.objectName])

(***************************************************************************)
(* Claims about the parameter compiler.                                    *)
(***************************************************************************)
Quoted(token) == <<"\"">> \o token \o <<"\"">>

ValidRelationalTokens ==
  {<<"=", "=">>, <<"<">>, <<">">>, <<"<", "=">>, <<">", "=">>, <<"!", "=">>}

ValidOperatorTokens == {<<"=">>, <<"+">>, <<"-">>, <<"/">>, <<"*">>}

\* C10: compiling a relationalOperator parameter never sets the error flag
\* and yields a quoted token of {==, <, >, <=, >=, !=}: '=' yields '==', a
\* token of the set yields itself, every other token yields '=='.  Compiling
\* an operator parameter yields a quoted token of {=, +, -, /, *}, every token
\* outside the set yielding '='.
C10_OperatorTokensValidated ==
  /\ (call.op = "GenerateParameterCodes"
        /\ call.metadata.type = "relationalOperator")
       => /\ errorOccurred = call.errorBefore
          /\ output \in {Quoted(t) : t \in ValidRelationalTokens}
          /\ output =
               Quoted(IF call.parameter \in ValidRelationalTokens
                      THEN call.parameter ELSE <<"=", "=">>)
  /\ (call.op = "GenerateParameterCodes" /\ call.metadata.type = "operator")
       => /\ errorOccurred = call.errorBefore
          /\ output \in {Quoted(t) : t \in ValidOperatorTokens}
          /\ output =
               Quoted(IF call.parameter \in ValidOperatorTokens
                      THEN call.parameter ELSE <<"=">>)

\* C10 witness: a relational token outside the set was compiled to the default.
C10_Witness ==
  /\ call.op = "GenerateParameterCodes"
  /\ call.metadata.type = "relationalOperator"
  /\ call.parameter = <<"=", "<">>
  /\ output = Quoted(<<"=", "=">>)

\* The call compiled a parameter of the given type whose raw token is a valid
\* token of the type in quotes.
CompiledQuotedToken(type, tokens) ==
  /\ call.op = "GenerateParameterCodes"
  /\ call.metadata.type = type
  /\ \E t \in tokens : call.parameter = Quoted(t)

\* The raw token of the call without the quotes around it.
Unquoted == SubSeq(call.parameter, 2, Len(call.parameter) - 1)

\* C19 as stated: a valid relationalOperator or operator token supplied in
\* quotes compiles to the same string literal as the bare token, not to the
\* default.
C19_QuotedTokenAsBare ==
  /\ CompiledQuotedToken("relationalOperator",
                         ValidRelationalTokens \cup {<<"=">>})
       => output = Quoted(IF Unquoted = <<"=">> THEN <<"=", "=">> ELSE Unquoted)
  /\ CompiledQuotedToken("operator", ValidOperatorTokens)
       => output = Quoted(Unquoted)

\* C19 amended: the raw token is validated as it is supplied; a valid token
\* supplied in quotes is not a token of the set and compiles to the default,
\* '==' for a relationalOperator and '=' for an operator.
C19_QuotedTokenIsDefault ==
  /\ CompiledQuotedToken("relationalOperator",
                         ValidRelationalTokens \cup {<<"=">>})
       => output = Quoted(<<"=", "=">>)
  /\ CompiledQuotedToken("operator", ValidOperatorTokens)
       => output = Quoted(<<"=">>)

\* C19 witness: the token '<' in quotes was compiled as a relationalOperator,
\* and gave the default.
C19_Witness ==
  /\ CompiledQuotedToken("relationalOperator", {<<"<">>})
  /\ output = Quoted(<<"=", "=">>)

\* The escaped form of one character.
Escaped(c) ==
  CASE c = "\\" -> <<"\\", "\\">>
    [] c = "\r" -> <<"\\", "r">>
    [] c = "\n" -> <<"\\", "n">>
    [] c = "\"" -> <<"\\", "\"">>
    [] OTHER -> <<c>>

\* The number of backslashes of s that end just before index i.
BackslashRunBefore(s, i) ==
  i - Min({j \in 1..i : \A k \in j..(i - 1) : s[k] = "\\"})

\* C11: ConvertToString replaces every backslash by two backslashes, every
\* carriage return by backslash-r, every line feed by backslash-n and every
\* double quote by backslash-quote, each character of the input being
\* escaped once; the output holds no raw carriage return or line feed, every
\* double quote in it follows an odd run of backslashes, and every maximal
\* run of backslashes that is not followed by a quote, 'r' or 'n' has even
\* length.
C11_EscapedOnce ==
  call.op = "ConvertToString" =>
    /\ output = Flatten([i \in 1..Len(call.parameter) |->
                           Escaped(call.parameter[i])])
    /\ \A i \in 1..Len(output) : output[i] \notin {"\r", "\n"}
    /\ \A i \in 1..Len(output) :
         output[i] = "\"" => BackslashRunBefore(output, i) % 2 = 1
    /\ \A i \in 1..(Len(output) + 1) :
         (/\ i <= Len(output) => output[i] \notin {"\\", "\"", "r", "n"}
          /\ BackslashRunBefore(output, i) > 0)
           => BackslashRunBefore(output, i) % 2 = 0

\* C11 witness: a backslash followed by a double quote was escaped.
C11_Witness ==
  /\ call.op = "ConvertToString"
  /\ call.parameter = <<"x", "\\", "\"">>
  /\ output = <<"x", "\\", "\\", "\\", "\"">>


(***************************************************************************)
(* Claims about the instruction compiler and the list compilers.           *)
(***************************************************************************)
\* The number of atoms of s that are in atoms.
Count(s, atoms) == Cardinality({i \in 1..Len(s) : s[i] \in atoms})

\* s cut after each of its atoms that is in terminators: the pieces, in
\* order; what follows the last terminator is the last piece.
SplitAfter(s, terminators) ==
  LET cuts == {i \in 1..Len(s) : s[i] \in terminators \/ i = Len(s)}
      Cut(k) == CHOOSE e \in cuts : Cardinality({c \in cuts : c <= e}) = k
      Start(e) == Max({0} \cup {c \in cuts : c < e}) + 1
  IN  [k \in 1..Cardinality(cuts) |-> SubSeq(s, Start(Cut(k)), Cut(k))]

\* The part of s before its first atom equal to atom.
Before(s, atom) ==
  LET found == {i \in 1..Len(s) : s[i] = atom}
  IN  IF found = {} THEN s ELSE SubSeq(s, 1, Min(found) - 1)

Returned(method) == call.op = "returned" /\ call.method = method

\* The flag of condition k, as the text conditionKIsTrue.
Flag(k) == <<"condition", Digits[k + 1], "IsTrue">>

\* The conjunction of the flags of conditions 0 .. i-1, in that order.
RECURSIVE FlagsConjunction(_, _)
FlagsConjunction(k, i) ==
  IF k >= i THEN <<>>
  ELSE (IF k = 0 THEN <<>> ELSE <<" && ">>) \o Flag(k) \o FlagsConjunction(k + 1, i)

ExpectedGuard(i) ==
  IF i = 0 THEN <<>> ELSE <<"if ( ">> \o FlagsConjunction(0, i) \o <<") ">>

ExpectedInitialization(n) ==
  Flatten([k \in 1..n |-> <<"bool ">> \o Flag(k - 1) \o <<" = false;\n">>])

\* The code of the conditions, one block per condition: what follows the
\* initialisation of the flags.
ConditionBlocks ==
  LET n == Len(call.instructions)
      initLen == Len(ExpectedInitialization(n))
  IN  SplitAfter(SubSeq(output.code, initLen + 1, Len(output.code)),
                 {"}", "/* Skipped condition (empty type) */"})

\* C1: for a condition list of length n, the n flags conditionKIsTrue are
\* first initialised to false, and the code of condition i (non-empty type)
\* is guarded by the conjunction of exactly the flags 0 .. i-1 in that order;
\* condition 0 has no guard.
C1_GuardNesting ==
  Returned("GenerateConditionsListCode") =>
    LET n == Len(call.instructions)
        initialization == ExpectedInitialization(n)
    IN  /\ Len(output.code) >= Len(initialization)
        /\ SubSeq(output.code, 1, Len(initialization)) = initialization
        /\ Len(ConditionBlocks) = n
        /\ \A i \in 0..(n - 1) :
             output.instructions[i + 1].type # "" =>
               LET block == ConditionBlocks[i + 1]
                   guard == Before(block, "{\n")
               IN  /\ guard = ExpectedGuard(i)
                   /\ Len(block) > Len(guard)
                   /\ block[Len(block)] = "}"

\* A list of three conditions of non-empty type was compiled, the last one
\* an object condition on the group.
C1_Witness ==
  /\ Returned("GenerateConditionsListCode")
  /\ Len(call.instructions) = 3
  /\ \A i \in 1..3 : output.instructions[i].type # ""
  /\ call.instructions[3].type = "Object"
  /\ call.instructions[3].parameters = << <<"G">> >>
  /\ Len(objectsAndGroups.groups[<<"G">>]) = 2

\* The metadata of the instruction of a call of GenerateConditionCode or
\* GenerateActionCode.
CallMetadata ==
  IF call.method = "GenerateConditionCode"
  THEN GetConditionMetadata(call.instruction.type)
  ELSE GetActionMetadata(call.instruction.type)

ReturnedInstruction ==
  /\ call.op = "returned"
  /\ call.method \in {"GenerateConditionCode", "GenerateActionCode"}

\* The generator as constructed, with the context of the root scope.
ConstructedState ==
  [errorOccurred |-> FALSE, includeFiles |-> {},
   maxCustomConditionsDepth |-> 0, maxConditionsListsSize |-> 0,
   context |-> RootContext]

\* The code of instruction on a generator as constructed.
CodeOf(instruction) ==
  IF call.method = "GenerateConditionCode"
  THEN GenerateConditionCode(instruction, ConditionIsTrue(0),
                             ConstructedState).code
  ELSE GenerateActionCode(instruction, ConstructedState).code

\* The instruction with its missing parameters as explicit empty tokens.
WithExplicitEmptyTokens(instruction, size) ==
  [instruction EXCEPT
     !.parameters = [i \in 1..size |->
                       IF i <= Len(instruction.parameters)
                       THEN instruction.parameters[i] ELSE EmptyString]]

PaddedAsSupplied ==
  LET size == Len(CallMetadata.parameters)
      instruction == call.instruction
  IN  IF Len(instruction.parameters) < size
      THEN /\ output.instructions[1] = WithExplicitEmptyTokens(instruction, size)
           /\ output.code = CodeOf(WithExplicitEmptyTokens(instruction, size))
      ELSE output.instructions[1] = instruction

TargetName == call.instruction.parameters[1]

\* The objects a group of the layout stands for: its members that exist, in
\* the order of the group.
ExistingMembers(group) ==
  SelectSeq(objectsAndGroups.groups[group],
            LAMBDA m : \/ HasObjectNamed(objectsAndGroups, m)
                       \/ HasObjectNamed(globalObjectsAndGroups, m))

SupportsCapability(object, capability) ==
  ~IsUnsupportedBaseObjectCapability(
      GetObjectMetadata(GetTypeOfObject(globalObjectsAndGroups,
                                        objectsAndGroups, object)),
      capability)

\* An object instruction with known metadata and no custom code generator,
\* given the group G, was compiled, and no object parameter was refused.
ObjectInstructionOnGroup ==
  /\ ReturnedInstruction
  /\ ~IsBadInstructionMetadata(CallMetadata)
  /\ ~HasCustomCodeGenerator(CallMetadata)
  /\ IsObjectInstruction(CallMetadata)
  /\ call.instruction.parameters # <<>>
  /\ TargetName \in GroupNames
  /\ \/ CallMetadata.parameters[1].supplementaryInformation = EmptyString
     \/ GetTypeOfObject(globalObjectsAndGroups, objectsAndGroups, TargetName)
          = CallMetadata.parameters[1].supplementaryInformation

\* The output cut into its fragments: a call ends with a full stop, a skip
\* is the comment alone.
Fragments ==
  SplitAfter(output.code,
             {".\n", ").\n"} \cup Range(UnsupportedCapabilityComment))

\* The fragment is the call made for the object; it names the function of
\* the instruction unless a call builder reported an error.
IsRealCall(fragment, object) ==
  /\ Len(fragment) >= 3
  /\ SubSeq(fragment, 1, 2) = <<"For each picked object \"">> \o object
  /\ \/ errorOccurred
     \/ Count(fragment,
              Range(CallMetadata.codeExtraInformation.functionCallName)) >= 1
  /\ Count(fragment, Range(UnsupportedCapabilityComment)) = 0

\* C6: an object instruction compiled on a group outputs one fragment per
\* expanded object, in the order of the group's members: a real call for an
\* object whose type supports the required capability, the comment "Object
\* with unsupported capability - skipped." for an object whose type does
\* not; the objects after an unsupported one are still compiled.
C6_OneFragmentPerObject ==
  ObjectInstructionOnGroup =>
    LET realObjects == ExistingMembers(TargetName)
        capability == CallMetadata.requiredBaseObjectCapability
    IN  /\ Len(Fragments) = Len(realObjects)
        /\ \A i \in 1..Len(realObjects) :
             IF SupportsCapability(realObjects[i], capability)
             THEN IsRealCall(Fragments[i], realObjects[i])
             ELSE Fragments[i] = UnsupportedCapabilityComment

\* An action requiring the "effect" capability was compiled on the group
\* A, B, C, whose second member is a Text: two calls around one skip.
C6_Witness ==
  /\ ObjectInstructionOnGroup
  /\ call.method = "GenerateActionCode"
  /\ CallMetadata.requiredBaseObjectCapability = "effect"
  /\ objectsAndGroups.groups[TargetName] = << <<"A">>, <<"B">>, <<"C">> >>
  /\ Count(output.code, {"For each picked object \""}) = 2
  /\ Count(output.code, Range(UnsupportedCapabilityComment)) = 1
  /\ Fragments[2] = UnsupportedCapabilityComment

\* A condition with known metadata and no custom code generator was compiled.
ReturnedCondition ==
  /\ Returned("GenerateConditionCode")
  /\ ~IsBadInstructionMetadata(CallMetadata)
  /\ ~HasCustomCodeGenerator(CallMetadata)

\* The predicates of the output (one per statement of a free condition, one
\* per picked object otherwise) and the negations wrapped around them.
Predicates ==
  IF CallMetadata.kind = "free" THEN Count(output.code, {";\n"})
  ELSE Count(output.code, {"For each picked object \""})

Negations == Count(output.code, {"!("})

MetadataTakesCareOfInversion ==
  \E i \in 1..Len(CallMetadata.parameters) :
    CallMetadata.parameters[i].type = "conditionInverted"

\* C9 as stated: for every kind (free, object, behavior) an inverted
\* condition has its predicate negated exactly once when its metadata
\* declares no conditionInverted parameter and not at all when it declares
\* one; a condition that is not inverted is never negated.
C9_NegatedUnlessDeclared ==
  ReturnedCondition =>
    Negations = IF call.instruction.inverted /\ ~MetadataTakesCareOfInversion
                THEN Predicates ELSE 0

\* C9 amended: the rule holds for free conditions; the predicate of an
\* object or behavior condition is negated exactly once whenever the
\* condition is inverted, whatever its metadata declares, and never when it
\* is not inverted.
C9_NegatedOnceWhenInverted ==
  ReturnedCondition =>
    Negations =
      IF CallMetadata.kind = "free"
      THEN (IF call.instruction.inverted /\ ~MetadataTakesCareOfInversion
            THEN Predicates ELSE 0)
      ELSE (IF call.instruction.inverted THEN Predicates ELSE 0)

\* An inverted object condition whose metadata declares a conditionInverted
\* parameter was compiled on a group of two objects.
C9_Witness ==
  /\ ReturnedCondition
  /\ call.instruction.type = "ObjectInverted"
  /\ call.instruction.inverted
  /\ MetadataTakesCareOfInversion
  /\ Predicates = 2
  /\ Negations = 2

(***************************************************************************)
(* Claims about the scopes of events and their declarations.               *)
(***************************************************************************)
\* The scopes compiled by the call, once it has returned.
CompiledScopes ==
  IF Returned("GenerateEventsListCode") THEN Range(output.compiled) ELSE {}

ParentIsReusable(scope) ==
  scope.parentContext.hasParent /\ ~scope.parentContext.reuseExplicitlyForbidden

IsLastSibling(scope) == scope.eId = scope.size - 1

\* The event was compiled at the depth of its parent: it aliases its lists.
AliasesParent(scope) ==
  scope.context.contextDepth = scope.parentContext.contextDepth

\* The event was compiled in a new context, inheriting from the parent.
InheritsFromParent(scope) ==
  /\ scope.context.contextDepth = scope.parentContext.contextDepth + 1
  /\ scope.context.hasParent
  /\ scope.parentContext.objectsListsToBeDeclared
       \subseteq scope.context.alreadyDeclaredObjectsLists

\* The names the scope declares, in the order of its declarations.
NeededNames(scope) ==
  Sorted(scope.context.objectsListsToBeDeclared)
    \o Sorted(scope.context.objectsListsWithoutPickingToBeDeclared)
    \o Sorted(scope.context.emptyObjectsListsToBeDeclared)

\* The declarations of the scope, one entry per name.
Declarations(scope) == SplitAfter(scope.declarationsCode, {"\n"})

DeclarationOf(scope, name) ==
  LET j == CHOOSE j \in 1..Len(NeededNames(scope)) : NeededNames(scope)[j] = name
  IN  Declarations(scope)[j]

ListName(name) == <<"GD">> \o name \o <<"ObjectsList">>

Statements(entry) == Count(entry, {";\n", "T;\n", "\");\n"})

\* A declaration from the runtime's objects, or of an empty list.
IsFreshDeclaration(entry, name, picking) ==
  /\ Len(entry) > 1 + Len(ListName(name))
  /\ Head(entry) = "std::vector<RuntimeObject*> "
  /\ SubSeq(entry, 2, 1 + Len(ListName(name))) = ListName(name)
  /\ Statements(entry) = 1
  /\ Count(entry, {" = runtimeContext->GetObjectsRawPointers(\""})
       = IF picking THEN 1 ELSE 0

\* A declaration copying the list of the parent.
IsCopyDeclaration(entry, name) ==
  /\ Len(entry) > 1 + Len(ListName(name))
  /\ Head(entry) = "std::vector<RuntimeObject*> & "
  /\ SubSeq(entry, 2, 1 + Len(ListName(name))) = ListName(name)
  /\ Statements(entry) = 2

\* No declaration, only the comment.
IsReuseComment(entry, name) ==
  entry = <<"/* Reuse ">> \o ListName(name) \o <<" */", "\n">>

\* The lists of the parent that the event asks for as they are: with or
\* without picking.
ParentListsNeeded(scope) ==
  (scope.context.objectsListsToBeDeclared
     \cup scope.context.objectsListsWithoutPickingToBeDeclared)
    \cap (scope.parentContext.objectsListsToBeDeclared
            \cup scope.parentContext.objectsListsWithoutPickingToBeDeclared
            \cup scope.parentContext.emptyObjectsListsToBeDeclared)

\* C7: an event of a list is compiled with a context that aliases the
\* parent's lists exactly when the parent context can be reused and the
\* event is the last of the list; any other event is compiled with a new
\* context inheriting from the parent.  A list declared by the parent is
\* then declared again as a copy for the latter, and only marked as reused
\* for the aliasing last event.
C7_ReuseOnlyForLastSibling ==
  \A scope \in CompiledScopes :
    /\ AliasesParent(scope) <=> (ParentIsReusable(scope) /\ IsLastSibling(scope))
    /\ ~AliasesParent(scope) => InheritsFromParent(scope)
    /\ Len(Declarations(scope)) = Len(NeededNames(scope))
    /\ \A name \in ParentListsNeeded(scope) :
         IF AliasesParent(scope)
         THEN IsReuseComment(DeclarationOf(scope, name), name)
         ELSE IsCopyDeclaration(DeclarationOf(scope, name), name)

\* Under a parent that can be reused and that asked for the list of A, a
\* list of two events that both ask for it was compiled: the first copies,
\* the last reuses.
C7_Witness ==
  /\ Returned("GenerateEventsListCode")
  /\ CanReuse(context)
  /\ <<"A">> \in context.objectsListsToBeDeclared
  /\ Len(call.events) = 2
  /\ \E first, last \in CompiledScopes :
       /\ first.eId = 0 /\ last.eId = 1
       /\ first.parentContext = context /\ last.parentContext = context
       /\ <<"A">> \in ParentListsNeeded(first) \cap ParentListsNeeded(last)
       /\ IsCopyDeclaration(DeclarationOf(first, <<"A">>), <<"A">>)
       /\ IsReuseComment(DeclarationOf(last, <<"A">>), <<"A">>)

AlreadyDeclared(scope, name) ==
  name \in scope.context.alreadyDeclaredObjectsLists

\* Was the list last used, for the event and for its parent, at the same
\* depth?
SameListAsParent(scope, name) ==
  GetLastDepthObjectListWasNeeded(scope.context.depthOfLastUse, name)
    = GetLastDepthObjectListWasNeeded(scope.parentContext.depthOfLastUse, name)

\* The fresh, copy or reuse rule for one needed name.
DeclaredFreshCopyOrReuse(scope, name, picking) ==
  LET entry == DeclarationOf(scope, name)
  IN  IF ~AlreadyDeclared(scope, name)
      THEN /\ IsFreshDeclaration(entry, name, picking)
           /\ name \in scope.declaredContext.alreadyDeclaredObjectsLists
      ELSE IF SameListAsParent(scope, name)
      THEN IsReuseComment(entry, name)
      ELSE IsCopyDeclaration(entry, name)

\* C8 as stated: for every needed name of every needed set (with picking,
\* without picking, empty) the declarations are a fresh declaration when the
\* name is not declared yet (it is then marked declared), a copy of the
\* parent's list when it is declared and the list is not the parent's, and
\* only a reuse comment when the list is the same as the parent's.
C8_FreshCopyOrReuseForEverySet ==
  \A scope \in CompiledScopes :
    /\ Len(Declarations(scope)) = Len(NeededNames(scope))
    /\ \A name \in scope.context.objectsListsToBeDeclared :
         DeclaredFreshCopyOrReuse(scope, name, TRUE)
    /\ \A name \in scope.context.objectsListsWithoutPickingToBeDeclared
                     \cup scope.context.emptyObjectsListsToBeDeclared :
         DeclaredFreshCopyOrReuse(scope, name, FALSE)

\* C8 amended: the rule holds for the names needed with picking and without
\* picking; a name needed empty is declared as a new empty list whether it
\* is already declared or not, and marked declared.
C8_FreshCopyOrReuseUnlessEmpty ==
  \A scope \in CompiledScopes :
    /\ Len(Declarations(scope)) = Len(NeededNames(scope))
    /\ \A name \in scope.context.objectsListsToBeDeclared :
         DeclaredFreshCopyOrReuse(scope, name, TRUE)
    /\ \A name \in scope.context.objectsListsWithoutPickingToBeDeclared :
         DeclaredFreshCopyOrReuse(scope, name, FALSE)
    /\ \A name \in scope.context.emptyObjectsListsToBeDeclared :
         /\ IsFreshDeclaration(DeclarationOf(scope, name), name, FALSE)
         /\ AlreadyDeclared(scope, name) \/
              name \in scope.declaredContext.alreadyDeclaredObjectsLists

\* The call compiled a scope that copies a list of its parent, a scope that
\* reuses one, a scope that declares a list for the first time and a scope
\* that needs empty a list that is already declared.
C8_Witness ==
  /\ \E scope \in CompiledScopes :
       \E name \in scope.context.objectsListsWithoutPickingToBeDeclared :
         AlreadyDeclared(scope, name) /\ ~SameListAsParent(scope, name)
  /\ \E scope \in CompiledScopes :
       \E name \in scope.context.objectsListsToBeDeclared :
         AlreadyDeclared(scope, name) /\ SameListAsParent(scope, name)
  /\ \E scope \in CompiledScopes :
       \E name \in scope.context.objectsListsToBeDeclared :
         ~AlreadyDeclared(scope, name)
  /\ \E scope \in CompiledScopes :
       \E name \in scope.context.emptyObjectsListsToBeDeclared :
         AlreadyDeclared(scope, name)

(***************************************************************************)
(* Claims about the order of the events' code.                             *)
(***************************************************************************)
\* The index in output.compiled of the scope of event k (from 1) of the
\* list: the scopes of the sub events of an event follow its own.
ScopeIndex(k) ==
  k + Cardinality(UNION {{<<j, i>> : i \in 1..Len(call.events[j].subEvents)} :
                           j \in 1..(k - 1)})

\* Scope-begin marker, declarations, body, scope-end marker.
InScope(declarationsCode, body) ==
  <<"\n", "{\n", "\n">> \o declarationsCode \o <<"\n">> \o body
    \o <<"\n", "}\n", "\n">>

\* The fragment of the sub event whose scope is at index p.
SubEventFragment(p) ==
  InScope(output.compiled[p].declarationsCode, <<"/* event */\n">>)

\* The body of the event whose scope is at index p: its own code, then its
\* sub events' fragments, in order.
BodyOf(p) ==
  IF output.compiled[p].event.subEvents = <<>> THEN <<"/* event */\n">>
  ELSE <<"/* event */\n", "\n{ //Subevents\n">>
         \o Flatten([i \in 1..Len(output.compiled[p].event.subEvents) |->
                       SubEventFragment(p + i)])
         \o <<"} //End of subevents\n">>

\* The declaration is that of the list of the object, or the comment that
\* the list is reused.
Declares(entry, name) ==
  /\ Len(entry) > 1 + Len(ListName(name))
  /\ SubSeq(entry, 2, 1 + Len(ListName(name))) = ListName(name)

\* C15: the code of a list of events is the events' fragments in source
\* order; each fragment is the scope-begin marker, the declarations, the
\* body and the scope-end marker, in that order, and the declarations cover
\* every objects list that the body asked for.
C15_FragmentsInOrder ==
  Returned("GenerateEventsListCode") =>
    /\ Len(output.compiled) = ScopeIndex(Len(call.events) + 1) - 1
    /\ \A k \in 1..Len(call.events) :
         output.compiled[ScopeIndex(k)].event = call.events[k]
    /\ output.code =
         Flatten([k \in 1..Len(call.events) |->
                    InScope(output.compiled[ScopeIndex(k)].declarationsCode,
                            BodyOf(ScopeIndex(k)))])
    /\ \A scope \in CompiledScopes :
         \A n \in 1..Len(scope.event.needs) :
           \E j \in 1..Len(Declarations(scope)) :
             Declares(Declarations(scope)[j], scope.event.needs[n].name)

\* C15 witness: two events were compiled, the first with sub events, and the
\* second asked for two lists.
C15_Witness ==
  /\ Returned("GenerateEventsListCode")
  /\ Len(call.events) = 2
  /\ call.events[1].subEvents # <<>>
  /\ Len(call.events[2].needs) = 2
  /\ Len(Declarations(output.compiled[ScopeIndex(2)])) >= 2
  /\ Count(output.code, {"/* event */\n"}) = Len(output.compiled)

(***************************************************************************)
(* Claims about the call builders.                                         *)
(***************************************************************************)
\* The kind of parameter the builder of the call looks for.
TargetKind ==
  IF call.builder = "GenerateRelationalOperatorCall"
  THEN "relationalOperator" ELSE "operator"

\* The indexes (from 0) at or after the start index of the metadata
\* parameters of the target kind.
TargetIndexes ==
  {i \in call.startFromArgument..(Len(call.types) - 1) :
     call.types[i + 1] = TargetKind}

\* No parameter of the target kind is found, or the one found is the last
\* metadata parameter.
NoValueParameter ==
  TargetIndexes = {} \/ Max(TargetIndexes) = Len(call.types) - 1

UnknownMutator ==
  /\ call.builder = "GenerateMutatorCall"
  /\ call.token \notin {<<"+">>, <<"=">>}

\* C12: a builder sets the error flag and returns the empty string when no
\* parameter of its kind is found from the start index or the one found is
\* the last metadata parameter, and so does the mutator builder when the
\* operator token is not in the mutator table; in every other case the error
\* flag is as it was before the call.
C12_BuildersReportMissingValue ==
  (call.op = "returned" /\ "builder" \in DOMAIN call
     /\ call.builder \in BuilderNames) =>
    IF NoValueParameter \/ UnknownMutator
    THEN errorOccurred /\ output = EmptyString
    ELSE errorOccurred = call.errorBefore /\ output # EmptyString

\* C12 witness: an operator found before the start index only, with the error
\* flag clear before the call.
C12_Witness ==
  /\ call.op = "returned" /\ "builder" \in DOMAIN call
  /\ call.builder = "GenerateOperatorCall"
  /\ call.types = <<"operator", "expression", "expression">>
  /\ call.startFromArgument = 1
  /\ ~call.errorBefore
  /\ errorOccurred
  /\ output = EmptyString

\* The compiled arguments the builder of the call was given.
BuilderArguments ==
  GenerateParametersCodes(BuilderParameters(call.types, call.token),
                          BuilderMetadata(call.types).parameters, context, <<>>)

\* The indexes (from 0) of the arguments at or after the start index, but
\* the operator (at index k) and the value after it.
OtherArguments(k) ==
  {i \in call.startFromArgument..(Len(call.types) - 1) : i \notin {k, k + 1}}

\* The arguments at the given indexes, in order, joined by ", ".
JoinedArguments(indexes) ==
  Flatten([i \in 1..Len(call.types) |->
             IF (i - 1) \notin indexes THEN EmptyString
             ELSE IF i - 1 = Min(indexes) THEN BuilderArguments[i]
             ELSE <<", ">> \o BuilderArguments[i]])

\* The compound operator of the call's operator token.
CompoundToken ==
  CASE call.token = <<"+">> -> <<"+", "=">>
    [] call.token = <<"-">> -> <<"-", "=">>
    [] call.token = <<"*">> -> <<"*", "=">>
    [] call.token = <<"/">> -> <<"/", "=">>
    [] call.token = <<"=">> -> <<"=">>

\* callStart(args) op (rhs), for the operator parameter at index k.
CompoundCall(callStart, k) ==
  callStart \o <<"(">> \o JoinedArguments(OtherArguments(k)) \o <<") ">>
    \o CompoundToken \o <<" (">> \o BuilderArguments[k + 2] \o <<")">>

\* What fills the slot of the value argument, for the operator at index k:
\* rhs for '=', else getter(other arguments) operator (rhs).
ValueSlot(k) ==
  IF call.token = <<"=">> THEN BuilderArguments[k + 2]
  ELSE <<"getter", "(">> \o JoinedArguments(OtherArguments(k)) \o <<") ">>
         \o call.token \o <<" (">> \o BuilderArguments[k + 2] \o <<")">>

\* The arguments from the start index on, in order and joined by ", ", the
\* operator at index k removed and the value after it replaced by its slot.
SetterArgumentsWith(k) ==
  Flatten([i \in 1..Len(call.types) |->
             IF i - 1 < call.startFromArgument \/ i - 1 = k THEN EmptyString
             ELSE (IF i - 1 = Min((call.startFromArgument..(Len(call.types) - 1))
                                    \ {k})
                   THEN EmptyString ELSE <<", ">>)
                    \o (IF i - 1 = k + 1 THEN ValueSlot(k)
                        ELSE BuilderArguments[i])])

MetadataOf(type) ==
  IF call.method \in {"GenerateConditionCode", "GenerateConditionsListCode"}
  THEN GetConditionMetadata(type) ELSE GetActionMetadata(type)

\* The name is that of an object or of a group, of the layout or the project.
IsKnownName(name) ==
  \/ name \in DOMAIN objectsAndGroups.objects
  \/ name \in DOMAIN globalObjectsAndGroups.objects
  \/ name \in DOMAIN objectsAndGroups.groups
  \/ name \in DOMAIN globalObjectsAndGroups.groups

\* The name given for the parameter at index i (from 1), empty when missing.
NameGiven(instruction, i) ==
  IF i <= Len(instruction.parameters) THEN instruction.parameters[i]
  ELSE EmptyString

\* The object-typed parameters whose name is unknown or of another type than
\* the one required.
BadObjectParameters(instruction) ==
  {i \in 1..Len(MetadataOf(instruction.type).parameters) :
     /\ IsObject(MetadataOf(instruction.type).parameters[i].type)
     /\ \/ ~IsKnownName(NameGiven(instruction, i))
        \/ /\ MetadataOf(instruction.type).parameters[i].supplementaryInformation
                # EmptyString
           /\ GetTypeOfObject(globalObjectsAndGroups, objectsAndGroups,
                              NameGiven(instruction, i))
                # MetadataOf(instruction.type).parameters[i]
                    .supplementaryInformation}

\* The placeholder the claim gives to the instruction, or the empty string.
PlaceholderOf(instruction) ==
  IF MetadataOf(instruction.type).bad
  THEN <<"/* Unknown instruction - skipped. */">>
  ELSE IF BadObjectParameters(instruction) = {} THEN EmptyString
  ELSE IF ~IsKnownName(NameGiven(instruction,
                                 Min(BadObjectParameters(instruction))))
  THEN <<"/* Unknown object - skipped. */">>
  ELSE <<"/* Mismatched object type - skipped. */">>

\* The same, but for the instructions with a custom code generator.
PlaceholderUnlessCustom(instruction) ==
  IF /\ ~MetadataOf(instruction.type).bad
     /\ HasCustomCodeGenerator(MetadataOf(instruction.type))
  THEN EmptyString ELSE PlaceholderOf(instruction)

\* What instruction i (from 1) of a list compiles to on its own.
AloneInList(i) ==
  IF call.method = "GenerateConditionsListCode"
  THEN GenerateConditionCode(call.instructions[i], ConditionIsTrue(i - 1),
                             ConstructedState)
  ELSE GenerateActionCode(call.instructions[i], ConstructedState)

\* The part of the list's code for instruction i (from 1) whose body is body.
BlockInList(i, body) ==
  IF call.method = "GenerateConditionsListCode"
  THEN IF call.instructions[i].type = ""
       THEN <<"/* Skipped condition (empty type) */">>
       ELSE ExpectedGuard(i - 1) \o <<"{\n">> \o body \o <<"}">>
  ELSE <<"{">>
         \o (IF call.instructions[i].type = ""
             THEN <<"/* Skipped action (empty type) */">> ELSE body)
         \o <<"}">>

ReturnedList ==
  /\ call.op = "returned"
  /\ call.method \in {"GenerateConditionsListCode", "GenerateActionsListCode"}

\* The code of the list when the instructions with a placeholder compile to
\* it and the others to what they compile to on their own, in order.
ListCodeWith(Placeholder(_)) ==
  (IF call.method = "GenerateConditionsListCode"
   THEN ExpectedInitialization(Len(call.instructions)) ELSE EmptyString)
    \o Flatten([i \in 1..Len(call.instructions) |->
                  BlockInList(i, IF Placeholder(call.instructions[i]) # EmptyString
                                 THEN Placeholder(call.instructions[i])
                                 ELSE AloneInList(i).code)])

PlaceholdersWith(Placeholder(_)) ==
  /\ (ReturnedInstruction /\ Placeholder(call.instruction) # EmptyString)
       => /\ output.code = Placeholder(call.instruction)
          /\ ~errorOccurred
  /\ ReturnedList
       => /\ output.code = ListCodeWith(Placeholder)
          /\ Len(output.instructions) = Len(call.instructions)
          /\ errorOccurred =
               (\E i \in 1..Len(call.instructions) :
                  /\ Placeholder(call.instructions[i]) = EmptyString
                  /\ AloneInList(i).st.errorOccurred)

NumberInstructions(method) ==
  IF method = "GenerateConditionCode" THEN {"ObjectNumber"}
  ELSE {"ObjectSetNumber", "BehaviorSetNumber"}

\* C18: the builders of an object instruction look for the operator and join
\* the arguments from index 1, those of a behavior instruction from index 2,
\* for conditions and for actions: an instruction of value kind number on a
\* known object, given its operator and its value, is compiled without an
\* error being reported.
C18_OperatorFoundAfterObject ==
  (/\ ReturnedInstruction
   /\ call.instruction.type \in NumberInstructions(call.method)
   /\ Len(call.instruction.parameters) = Len(CallMetadata.parameters)
   /\ PlaceholderOf(call.instruction) = EmptyString)
    => ~errorOccurred

(***************************************************************************)
(* Claims about the instructions with a custom code generator.             *)
(***************************************************************************)
\* An instruction whose metadata has a custom code generator was compiled.
ReturnedCustomInstruction ==
  /\ ReturnedInstruction
  /\ ~CallMetadata.bad
  /\ HasCustomCodeGenerator(CallMetadata)

RECURSIVE NestingDepth(_)
NestingDepth(instruction) ==
  IF instruction.type \notin {"Custom", "CustomNested"} THEN 0
  ELSE 1 + Max({0} \cup {NestingDepth(instruction.subInstructions[i]) :
                           i \in 1..Len(instruction.subInstructions)})

\* The number of custom conditions of the instruction, itself included.
RECURSIVE CustomConditionsIn(_)
CustomConditionsIn(instruction) ==
  IF instruction.type \notin {"Custom", "CustomNested"} THEN 0
  ELSE 1 + Len(Flatten([i \in 1..Len(instruction.subInstructions) |->
                          [j \in 1..CustomConditionsIn(
                                      instruction.subInstructions[i]) |-> j]]))

ReturnedCustomCondition == call.op = "returned" /\ "depthBefore" \in DOMAIN call

\* C22: after a condition with a custom code generator is compiled, the
\* context's custom-condition depth is what it was before the call, also
\* when the hook compiles custom conditions itself; the code is the hook's
\* code after the reference to the upper boolean, in one block of its own
\* (one block per custom condition); the generator's maximum depth is the
\* greater of what it was before and of the depth reached in the hooks.
C22_DepthBalanced ==
  ReturnedCustomCondition =>
    /\ context.customConditionDepth = call.depthBefore
    /\ maxCustomConditionsDepth >= call.maxBefore
    /\ maxCustomConditionsDepth >= call.depthBefore + 1
    /\ maxCustomConditionsDepth =
         Max({call.maxBefore, call.depthBefore + NestingDepth(call.instruction)})
    /\ Head(output.code) = "{"
    /\ SubSeq(output.code, 2, 9) =
         <<"bool & ", "conditionTrue", " = ", "condition", "0", "IsTrue",
           ";\n", "/* custom ">>
    /\ output.code[Len(output.code)] = "}\n"
    /\ Count(output.code, {"{"}) = CustomConditionsIn(call.instruction)
    /\ Count(output.code, {"}\n"}) = CustomConditionsIn(call.instruction)

\* C22 witness: inside a hook, a condition whose hook compiles a custom
\* condition and a condition nesting another one was compiled: the depth went
\* from 1 to 4 and is 1 again.
C22_Witness ==
  /\ ReturnedCustomCondition
  /\ call.instruction =
       CustomNested(<<Instruction("Custom", <<>>, FALSE),
                      CustomNested(<<Instruction("Custom", <<>>, FALSE)>>)>>)
  /\ call.depthBefore = 1
  /\ call.maxBefore = 0
  /\ context.customConditionDepth = 1
  /\ maxCustomConditionsDepth = 4

(***************************************************************************)
(* Claims about the blocks of the lists of instructions.                   *)
(***************************************************************************)
NoPlaceholder(instruction) == EmptyString

\* The number of instructions of the list whose type is one of types.
InstructionsOfType(types) ==
  Cardinality({i \in 1..Len(call.instructions) :
                 call.instructions[i].type \in types})

\* C23: the code of a list of actions is one '{...}' block per action, in
\* the order of the list; the block of an action of empty type holds the
\* 'Skipped action (empty type)' marker and not the code generated for it; a
\* condition of empty type gives the 'Skipped condition (empty type)' marker
\* at its position.
C23_OneBlockPerAction ==
  ReturnedList =>
    /\ output.code = ListCodeWith(NoPlaceholder)
    /\ call.method = "GenerateActionsListCode"
         => /\ Count(output.code, {"{"}) = Len(call.instructions)
            /\ Count(output.code, {"}"}) = Len(call.instructions)
            /\ Count(output.code, {"/* Skipped action (empty type) */"})
                 = InstructionsOfType({""})
            /\ Count(output.code, {"/* Unknown instruction - skipped. */"})
                 = InstructionsOfType({"Unknown"})
    /\ call.method = "GenerateConditionsListCode"
         => /\ Count(output.code, {"/* Skipped condition (empty type) */"})
                 = InstructionsOfType({""})
            /\ Count(output.code, {"/* Unknown instruction - skipped. */"})
                 = InstructionsOfType({"Unknown"})
            /\ Count(output.code, {"{\n"})
                 = Len(call.instructions) - InstructionsOfType({""})

\* C23 witness: an action of empty type between two actions was compiled to
\* three blocks, the second one holding the marker.
C23_Witness ==
  /\ ReturnedList
  /\ call.method = "GenerateActionsListCode"
  /\ Len(call.instructions) = 3
  /\ call.instructions[1].type = "Do"
  /\ call.instructions[2].type = ""
  /\ call.instructions[3].type = "Unknown"
  /\ Count(output.code, {"{"}) = 3
  /\ Count(output.code, {"/* Skipped action (empty type) */"}) = 1
  /\ Count(output.code, {"/* Unknown instruction - skipped. */"}) = 1

(***************************************************************************)
(* Claims about the declarations in a context without parent.              *)
(***************************************************************************)
ReturnedDeclarations == call.op = "GenerateObjectsDeclarationCode"

\* The lists the context asked for before the call, in the order of their
\* declarations, each with the loop that declares it.
NeededBefore ==
  [j \in 1..Len(Sorted(call.contextBefore.objectsListsToBeDeclared)) |->
     Need("picking", Sorted(call.contextBefore.objectsListsToBeDeclared)[j])]
    \o [j \in 1..Len(Sorted(call.contextBefore
                              .objectsListsWithoutPickingToBeDeclared)) |->
          Need("withoutPicking",
               Sorted(call.contextBefore
                        .objectsListsWithoutPickingToBeDeclared)[j])]
    \o [j \in 1..Len(Sorted(call.contextBefore.emptyObjectsListsToBeDeclared)) |->
          Need("empty",
               Sorted(call.contextBefore.emptyObjectsListsToBeDeclared)[j])]

\* The list is already declared, is not needed empty, and the context has no
\* parent.
CannotBeDeclared(need) ==
  /\ ~call.contextBefore.hasParent
  /\ need.name \in call.contextBefore.alreadyDeclaredObjectsLists
  /\ need.kind # "empty"

Occurrences(code, text) ==
  {p \in 1..(Len(code) - Len(text) + 1) :
     SubSeq(code, p, p + Len(text) - 1) = text}

\* The block of condition j (from 0) is a placeholder: the comment of the
\* empty type, or braces around one of the three 'skipped' comments.
IsPlaceholderBlock(j) ==
  \/ ConditionBlocks[j + 1] = <<"/* Skipped condition (empty type) */">>
  \/ \E comment \in {"/* Unknown instruction - skipped. */",
                     "/* Unknown object - skipped. */",
                     "/* Mismatched object type - skipped. */"} :
       ConditionBlocks[j + 1] = ExpectedGuard(j) \o <<"{\n", comment, "}">>

\* C25: in the code of a list of conditions, the flag of a condition that
\* compiled to a placeholder is initialised to false and assigned nowhere,
\* and the guard of every condition after it names that flag.
C25_PlaceholderFlagNeverSet ==
  Returned("GenerateConditionsListCode") =>
    \A j \in 0..(Len(call.instructions) - 1) :
      IsPlaceholderBlock(j) =>
        /\ Occurrences(output.code, Flag(j) \o <<" = ">>) = {}
        /\ Cardinality(Occurrences(output.code,
                                   <<"bool ">> \o Flag(j) \o <<" = false;\n">>))
             = 1
        /\ \A i \in (j + 1)..(Len(call.instructions) - 1) :
             output.instructions[i + 1].type # "" =>
               Occurrences(Before(ConditionBlocks[i + 1], "{\n"), Flag(j)) # {}

\* C25 witness: an unknown condition was compiled before two free conditions:
\* its flag is assigned nowhere, the flags of the two others are, and both
\* are guarded by the flag of the first.
C25_Witness ==
  /\ Returned("GenerateConditionsListCode")
  /\ Len(call.instructions) = 3
  /\ call.instructions[1].type = "Unknown"
  /\ call.instructions[2].type = "Free"
  /\ call.instructions[3].type = "Free"
  /\ IsPlaceholderBlock(0)
  /\ ~IsPlaceholderBlock(1)
  /\ Occurrences(output.code, Flag(0) \o <<" = ">>) = {}
  /\ Cardinality(Occurrences(output.code, Flag(1) \o <<" = ">>)) = 1
  /\ Cardinality(Occurrences(output.code, Flag(2) \o <<" = ">>)) = 1
  /\ Occurrences(Before(ConditionBlocks[3], "{\n"), Flag(0)) # {}

(***************************************************************************)
(* Claims about the walk of PreprocessEventList.                           *)
(***************************************************************************)
\* The outermost call of PreprocessEventList has returned.
WalkDone == call.op = "PreprocessEventList" /\ call.stack = <<>>

\* The events of the list, and the sub events of those that stay in it.
RECURSIVE EventsKept(_)
EventsKept(events) ==
  IF events = <<>> THEN {}
  ELSE {Head(events).id}
         \cup (IF Head(events).removesItself THEN {}
               ELSE EventsKept(Head(events).subEvents))
         \cup EventsKept(Tail(events))

\* The number of calls of Preprocess on the event.
PreprocessCalls(id) == Count(history, {id})

\* The event named was preprocessed before the call at place q of history.
PreprocessedBefore(id, q) == \E p \in 1..(q - 1) : history[p] = id

\* C26: once the walk is over, Preprocess was called exactly once on every
\* event of the list and on every sub event of an event that stays in the
\* list, also on the event that follows one that removed itself, and on an
\* event before any of its sub events.
C26_EveryEventPreprocessedOnce ==
  /\ WalkDone => \A id \in EventsKept(call.listEvent) : PreprocessCalls(id) = 1
  /\ call.op = "PreprocessEventList"
       => \A q \in 1..Len(history) :
            Len(history[q]) = 2
              => PreprocessedBefore(<<history[q][1]>>, q)

\* The part of C26 the walk satisfies: no event is preprocessed twice.
C26_AtMostOnce ==
  call.op = "PreprocessEventList"
    => \A id \in EventIds(call.listEvent) : PreprocessCalls(id) <= 1

\* The walk ends.
C26_WalkTerminates == <>WalkDone

\* The event after one that removed itself is never preprocessed although its
\* sub event is.
C26_SkippedAfterRemoval ==
  /\ WalkDone
  /\ Len(call.listEvent) = 2
  /\ call.listEvent[1].removesItself
  /\ ~call.listEvent[2].removesItself
  /\ Len(call.listEvent[2].subEvents) = 1
  /\ history = << <<1>>, <<2, 1>> >>

(***************************************************************************)
(* Claims about the current object of the context.                         *)
(***************************************************************************)
\* An object or behavior instruction was compiled from a context whose
\* current object is known.
ReturnedPerObjectInstruction ==
  /\ ReturnedInstruction
  /\ "currentObjectBefore" \in DOMAIN call

\* The number of expanded objects whose call was compiled.
ObjectsCompiled == Count(output.code, {"For each picked object \""})

\* The number of expanded objects skipped for an unsupported capability.
ObjectsSkipped == Count(output.code, Range(UnsupportedCapabilityComment))

\* The objects that do not support the capability the instruction requires.
Unsupporting ==
  {o \in ObjectNames :
     /\ IsObjectInstruction(CallMetadata)
     /\ ~SupportsCapability(o, CallMetadata.requiredBaseObjectCapability)}

\* C27: after an object or behavior instruction that compiled at least one
\* object, the context has no current object, whatever it had before; an
\* object that does not support the required capability is not made the
\* current object and its list is not marked as needed.
C27_NoCurrentObjectAfterwards ==
  ReturnedPerObjectInstruction =>
    /\ ObjectsCompiled >= 1 => context.currentObject = EmptyString
    /\ ObjectsCompiled = 0 => context.currentObject = call.currentObjectBefore
    /\ \A o \in Unsupporting :
         /\ context.currentObject = o => call.currentObjectBefore = o
         /\ o \notin context.objectsListsToBeDeclared

\* C27 witness: an action on a group of two objects, compiled from a
\* context whose current object is not in the group, compiled one of them
\* and skipped the other; the context has no current object any more and
\* only the list of the first is needed.
C27_Witness ==
  /\ ReturnedPerObjectInstruction
  /\ call.currentObjectBefore # EmptyString
  /\ call.instruction.type = "ObjectCapabilityDo"
  /\ ObjectsCompiled = 1
  /\ ObjectsSkipped = 1
  /\ Unsupporting # {}
  /\ context.currentObject = EmptyString
  /\ Cardinality(context.objectsListsToBeDeclared) = 1
  /\ Unsupporting \cap context.objectsListsToBeDeclared = {}

=============================================================================
